---- MODULE Spec2Model ----
(***************************************************************************)
(* The network anomaly dashboard's engine: the DataManager (source         *)
(* registry, active source, bounded histories, event fan-out), the         *)
(* producers it drives (SimulatedDataSource and the PcapDataSource family) *)
(* and the z-score detector of POST /api/network-data.                     *)
(*                                                                         *)
(* JavaScript runs one task at a time.  A Coordinator call runs without    *)
(* interruption up to its next await; a continuation whose awaited promise *)
(* is already resolved is a microtask, resumed in FIFO order (ready); a    *)
(* timer (a producer tick, the delay inside initialize) is a macrotask and *)
(* fires only when no microtask is pending.                                *)
(***************************************************************************)
EXTENDS Integers, Sequences, FiniteSets, TLC

\* ---------------------------------------------------------------- bounds
MaxInst == 2          \* producer instances constructed in one run
MaxTasks == 2         \* Coordinator calls in flight at the same time
MaxTicks == 1         \* timer ticks in one run
MaxSubs == 1          \* times the UI hook registers its four handlers
HistTicks == 3602     \* timer ticks in a run that fills the histories
MaxPosts == 31        \* samples POSTed to /api/network-data in one run
MaxOdd == 1           \* of them, samples that differ from the quiet one
MaxReg == 3           \* producer instances in a run that registers three sources
MaxFaults == 1        \* failures one producer catches in start() and stop()
RunTicks == 10        \* timer ticks of the one source that is made active and left alone
FaultTicks == 2       \* timer ticks in a run with a subscriber that throws
AdminTicks == 2       \* timer ticks in a run of administrative starts and stops
MaxDrift == 1         \* samples of a steady stream that leave its centre
MaxUnits == 2         \* producers a caller constructs and drives by itself
UnitTicks == 2        \* timer ticks in a run that drives producers directly
MaxMounts == 2        \* times the effect of a mounted hook runs
MaxRenders == 5       \* times the effect runs when the hook's state drives it
RenderTicks == 1      \* timer ticks in that run
StorePosts == 11      \* samples POSTed in a run in which the Coordinator runs too
StoreTicks == 2       \* timer ticks in that run
HookTicks == 7        \* timer ticks in a run with a mounted hook

\* ------------------------------------------------------ program constants
maxDataHistorySize == 3600
maxAnomalyHistorySize == 1000
DefaultUpdateInterval == 1000
DefaultAnomalyProbability == 5     \* 0.05, in percent
PcapAnomalyProbability == 5        \* 0.05, in percent
ZSCORE_THRESHOLD == 3
MinSamples == 10                   \* networkDataHistory.length < 10: no detection
WindowSize == 30                   \* slice(-30)
MaxNetworkDataHistory == 1000
MaxDetectedAnomalies == 100

NoId == "null"
Ids == {"simulated", "b"}
RegIds == {"simulated", "b", "c"}
\* the type each id is registered with
TypesOf(id) == {IF id = "simulated" THEN "simulated" ELSE "pcap"}
\* the config argument: a key it does not carry is Absent; undefined and {} are
\* NoConfig, {anomalyProbability: p} is Config(p) with p in percent, and
\* {updateInterval: ms} is Every(ms) ({sampleInterval: ms} for the capture family)
Absent == -1
NoConfig == [anomalyProbability |-> Absent, updateInterval |-> Absent]

\* a JSON value that is not a number and not an array: null
JsonNull == -1000000

\* a configuration that carries the key exporters with the value null
NoExporters ==
    [anomalyProbability |-> Absent, updateInterval |-> Absent, exporters |-> JsonNull]

\* initialize of the NetFlow source evaluates this.config.exporters.join(", ") after
\* its delay, which throws when the merged configuration holds no array there
InitializeThrows(type, config) ==
    /\ type = "netflow"
    /\ "exporters" \in DOMAIN config
    /\ config.exporters = JsonNull
Config(p) == [NoConfig EXCEPT !.anomalyProbability = p]
Every(ms) == [NoConfig EXCEPT !.updateInterval = ms]
Configs == {NoConfig, Config(100)}
NoConfigs == {NoConfig}
\* anomalyProbability 0 and 1: Math.random() < p has one outcome
HistConfigs == {Config(0), Config(100)}

VARIABLES
    dataSources,        \* Map id -> producer, in insertion order: Seq of [id, inst]
    activeSource,       \* id or NoId
    dataCallbacks, anomalyCallbacks, statusCallbacks, errorCallbacks, \* lengths of the callback lists
    dataHistory, anomalyHistory,
    src,                \* the producer objects constructed so far, by index
    awaitingInit,       \* addDataSource calls suspended on initialize's delay
    ready,              \* FIFO of continuations whose awaited promise is resolved
    now,                \* Date.now(), one unit per timer tick
    networkDataHistory, \* the samples POST /api/network-data holds
    detectedAnomalies,  \* the anomalies that route holds
    response,           \* the route's last response
    hook,               \* the UI hook: which one is mounted, its anomalies state, and
                        \* its pending 5-second timers
    isNew,              \* the anomaly objects whose isNew field is true
    ev                  \* what the last step did (history variable)

vars == <<dataSources, activeSource, dataCallbacks, anomalyCallbacks, statusCallbacks,
          errorCallbacks, dataHistory, anomalyHistory, src, awaitingInit, ready, now,
          networkDataHistory, detectedAnomalies, response, hook, isNew, ev>>

coord == <<dataSources, activeSource, dataHistory, anomalyHistory>>
subs == <<dataCallbacks, anomalyCallbacks, statusCallbacks, errorCallbacks>>
route == <<networkDataHistory, detectedAnomalies, response>>
ui == <<hook, isNew>>

Min(a, b) == IF a < b THEN a ELSE b
Max(a, b) == IF a > b THEN a ELSE b

\* ------------------------------------------------------------- the Map
Has(id) == \E k \in 1..Len(dataSources) : dataSources[k].id = id

\* dataSources.get(id): the producer's index, 0 for undefined
Get(id) ==
    IF Has(id)
    THEN dataSources[CHOOSE k \in 1..Len(dataSources) : dataSources[k].id = id].inst
    ELSE 0

\* a map that appended on every set would hold a key twice
MapSet_Append(m, id, i) == Append(m, [id |-> id, inst |-> i])

\* Map.set: an existing key keeps its place and gets the new value
MapSet(m, id, i) ==
    IF \E k \in 1..Len(m) : m[k].id = id
    THEN [k \in 1..Len(m) |-> IF m[k].id = id THEN [id |-> id, inst |-> i] ELSE m[k]]
    ELSE Append(m, [id |-> id, inst |-> i])

MapDelete(m, id) == SelectSeq(m, LAMBDA e : e.id # id)

\* getDataSources(): [id, source, active] per entry
getDataSources ==
    [k \in 1..Len(dataSources) |->
        [id |-> dataSources[k].id, source |-> dataSources[k].inst,
         active |-> dataSources[k].id = activeSource]]

\* -------------------------------------------------------- the producers
\* A producer the program holds no reference to any more: what it was is forgotten.
Collected ==
    [kind |-> "collected", running |-> FALSE, interval |-> FALSE, timers |-> 0,
     status |-> "stopped", cfg |-> 0, updateInterval |-> 0, period |-> 0, wired |-> NoId,
     dataPointsProcessed |-> 0, anomaliesDetected |-> 0, errorCount |-> 0]

NewSource(type) ==
    [kind |-> type, running |-> FALSE, interval |-> FALSE, timers |-> 0,
     status |-> "stopped", cfg |-> DefaultAnomalyProbability,
     updateInterval |-> DefaultUpdateInterval, period |-> 0, wired |-> NoId,
     dataPointsProcessed |-> 0, anomaliesDetected |-> 0, errorCount |-> 0]

\* an update that replaced the configuration by the argument
MergeConfig_Replace(p, config) ==
    [p EXCEPT !.cfg = config.anomalyProbability, !.updateInterval = config.updateInterval]

\* {...this.config, ...config}
MergeConfig(p, config) ==
    [p EXCEPT !.cfg = IF config.anomalyProbability # Absent
                      THEN config.anomalyProbability ELSE @,
              !.updateInterval = IF config.updateInterval # Absent
                                 THEN config.updateInterval ELSE @]

\* initialize up to its await: both variants end this part with status initializing
InitializeBegin(p, config) == [MergeConfig(p, config) EXCEPT !.status = "initializing"]

\* initialize after the delay: updateStatus("stopped"); return true
InitializeEnd(p) == [p EXCEPT !.status = "stopped"]

\* a start that armed a timer whether or not the producer was running
SimStart_Unguarded(p) ==
    [p |-> [p EXCEPT !.running = TRUE, !.status = "running",
                     !.interval = TRUE, !.timers = @ + 1,
                     !.period = p.updateInterval],
     notes |-> <<"running">>]

\* Each lifecycle method gives the producer after it and the statuses it announced.
SimStart(p) ==
    IF p.running THEN [p |-> p, notes |-> <<>>]
    ELSE [p |-> [p EXCEPT !.running = TRUE, !.status = "running",
                          !.interval = TRUE, !.timers = @ + 1,
                          !.period = p.updateInterval],
          notes |-> <<"running">>]

PcapStart(p) ==
    IF p.running THEN [p |-> p, notes |-> <<>>]
    ELSE [p |-> [p EXCEPT !.running = TRUE, !.status = "running",
                          !.interval = TRUE, !.timers = @ + 1,
                          !.period = p.updateInterval],
          notes |-> <<"initializing", "running">>]

\* a stop that left the timer armed
SimStop_KeepTimer(p) ==
    IF ~p.running THEN [p |-> p, notes |-> <<>>]
    ELSE [p |-> [p EXCEPT !.running = FALSE, !.status = "stopped", !.interval = FALSE],
          notes |-> <<"stopped">>]

\* clearInterval(this.interval) cancels the one timer the field refers to
SimStop(p) ==
    IF ~p.running THEN [p |-> p, notes |-> <<>>]
    ELSE [p |-> [p EXCEPT !.running = FALSE, !.status = "stopped", !.interval = FALSE,
                          !.timers = IF p.interval THEN @ - 1 ELSE @, !.period = 0],
          notes |-> <<"stopped">>]

PcapStop(p) ==
    IF ~p.running THEN [p |-> p, notes |-> <<>>]
    ELSE [p |-> [p EXCEPT !.running = FALSE, !.status = "stopped", !.interval = FALSE,
                          !.timers = IF p.interval THEN @ - 1 ELSE @, !.period = 0],
          notes |-> <<"stopped">>]

\* a start that reset the counters
Start_Fresh(p) ==
    LET r == IF p.kind = "simulated" THEN SimStart(p) ELSE PcapStart(p)
    IN  IF p.running THEN r
        ELSE [r EXCEPT !.p.dataPointsProcessed = 0, !.p.anomaliesDetected = 0,
                       !.p.errorCount = 0]

Start(p) == IF p.kind = "simulated" THEN SimStart(p) ELSE PcapStart(p)
Stop(p) == IF p.kind = "simulated" THEN SimStop(p) ELSE PcapStop(p)

\* ------------------------------------------------------- the UI hooks
\* Two hooks subscribe to the Coordinator: useDataSource, which the dashboard mounts,
\* and useWebSocket. hook.kind is "none" while the subscribers are somebody else's.
\* An entry of the hook's anomalies state is the anomaly object the Coordinator
\* handed over (own = FALSE: its isNew field is the object's) or a copy the hook made
\* (own = TRUE: it carries its own isNew). timeouts are the pending setTimeout
\* callbacks, in the order they were set.
\* trafficHistory is the chart's series. isConnected and activeSourceId are the hook's
\* state; effect holds the values of both that the effect which ran last closed over;
\* pc is the place of the hook's connect or setActiveSource call ("idle": none), arg
\* its source id, and disconnecting tells that a disconnect() is in its loop.
\* requested is history: the id of the last setActiveSource / switchDataSource call.
NoHook ==
    [kind |-> "none", anomalies |-> <<>>, timeouts |-> <<>>, trafficHistory |-> <<>>,
     isConnected |-> FALSE, activeSourceId |-> NoId,
     effect |-> [isConnected |-> FALSE, activeSourceId |-> NoId],
     pc |-> "idle", arg |-> NoId, disconnecting |-> FALSE, requested |-> NoId]

TrafficWindow == 60   \* if (updatedHistory.length > 60) updatedHistory.shift()

NewFor == 5           \* setTimeout(..., 5000), in intervals of 1000 ms

\* what the hook shows as an entry's isNew
FlagOf(e, marks) == IF e.own THEN e.isNew ELSE e.id \in marks

\* handleAnomaly of the mounted hook, called by n anomaly callbacks at time t: each
\* call puts the anomaly at the head of the list and sets a timer. useDataSource puts
\* a copy { ...anomaly, isNew: true }, useWebSocket the object itself.
RECURSIVE Shown(_, _, _, _)
Shown(h, anomaly, n, t) ==
    IF n = 0 \/ h.kind = "none" THEN h
    ELSE Shown([h EXCEPT !.anomalies =
                             <<[id |-> anomaly, isNew |-> h.kind = "useDataSource",
                                own |-> h.kind = "useDataSource"]>> \o @,
                         !.timeouts = Append(@, [id |-> anomaly, due |-> t + NewFor])],
               anomaly, n - 1, t)

\* handleData of the mounted hook, called by n data callbacks: each call appends the
\* sample to trafficHistory and drops the oldest entry above 60
RECURSIVE Plotted(_, _, _)
Plotted(h, data, n) ==
    IF n = 0 \/ h.kind = "none" THEN h
    ELSE Plotted([h EXCEPT !.trafficHistory =
                               IF Len(Append(@, data)) > TrafficWindow
                               THEN Tail(Append(@, data)) ELSE Append(@, data)],
                 data, n - 1)

\* useWebSocket: anomaly.isNew = true, on the object the Coordinator stored
Marked(h, marks, anomaly, n) ==
    IF n > 0 /\ h.kind = "useWebSocket" THEN marks \cup {anomaly} ELSE marks

\* ------------------------------------------- the Coordinator's handlers
\* a store that never evicted
ShiftIfOver_Never(h, max) == h

\* a store that dropped the item just appended instead of the oldest one
ShiftIfOver_DropNewest(h, max) == IF Len(h) > max THEN SubSeq(h, 1, max) ELSE h

\* if (history.length > max) history.shift()
ShiftIfOver(h, max) == IF Len(h) > max THEN Tail(h) ELSE h

\* a handler without the active-source test
handleData_Unfiltered(sourceId, data) ==
    [hist |-> ShiftIfOver(Append(dataHistory, data), maxDataHistorySize),
     to |-> dataCallbacks]

\* a handler that stored each sample of the active source twice
handleData_Twice(sourceId, data) ==
    IF sourceId = activeSource
    THEN [hist |-> ShiftIfOver(Append(Append(dataHistory, data), data), maxDataHistorySize),
          to |-> dataCallbacks]
    ELSE [hist |-> dataHistory, to |-> 0]

\* handleData: the history after the event and the number of subscribers called
handleData(sourceId, data) ==
    IF sourceId = activeSource
    THEN [hist |-> ShiftIfOver(Append(dataHistory, data), maxDataHistorySize),
          to |-> dataCallbacks]
    ELSE [hist |-> dataHistory, to |-> 0]

handleAnomaly(sourceId, anomaly) ==
    IF sourceId = activeSource
    THEN [hist |-> ShiftIfOver(Append(anomalyHistory, anomaly), maxAnomalyHistorySize),
          to |-> anomalyCallbacks]
    ELSE [hist |-> anomalyHistory, to |-> 0]

\* a re-dispatch of status events that let only the active source through
handleStatusChange_ActiveOnly(sourceId, notes) ==
    [to |-> IF sourceId = NoId \/ sourceId # activeSource THEN 0
            ELSE Len(notes) * statusCallbacks,
     id |-> sourceId]

\* The producer's status callback: none until addDataSource has wired the producer
\* (sourceId = NoId), then (status) => this.handleStatusChange(id, status), which calls
\* every onStatus subscriber once for each status announced.
handleStatusChange(sourceId, notes) ==
    [to |-> IF sourceId = NoId THEN 0 ELSE Len(notes) * statusCallbacks,
     id |-> sourceId]

\* The producer's error callback: none until wired, then (error) =>
\* this.handleError(id, error), which calls every onError subscriber once.
handleError(sourceId) ==
    [to |-> IF sourceId = NoId THEN 0 ELSE errorCallbacks, id |-> sourceId]

\* ---------------------------------------------------- history variable
NoEv ==
    [type |-> "none", op |-> "", id |-> NoId, inst |-> 0, res |-> FALSE,
     pop |-> "", was |-> FALSE, notes |-> <<>>, errs |-> 0, prev |-> 0,
     active |-> NoId, data |-> FALSE, anomaly |-> FALSE, dataTo |-> 0, anomalyTo |-> 0,
     fault |-> FALSE, statusTo |-> 0, tag |-> NoId, body |-> [timestamp |-> 0]]

\* a call or continuation that suspended at an await
Suspended(op, id, i) == [NoEv EXCEPT !.type = "await", !.op = op, !.id = id, !.inst = i]
\* a call that returned res
Returned(op, id, i, res) ==
    [NoEv EXCEPT !.type = "ret", !.op = op, !.id = id, !.inst = i, !.res = res]
\* the catch block: handleError(id, error) tells every error subscriber; return false
Failed(op, id) ==
    [NoEv EXCEPT !.type = "ret", !.op = op, !.id = id, !.res = FALSE, !.errs = errorCallbacks]
\* the producer method run in the step, whether it found the producer running, and
\* the statuses the producer announced
WithProducer(e, pop, was, notes) ==
    [e EXCEPT !.pop = pop, !.was = was, !.notes = notes,
              !.statusTo = handleStatusChange(src[e.inst].wired, notes).to,
              !.tag = handleStatusChange(src[e.inst].wired, notes).id]

\* a continuation: the call it belongs to, where it resumes, and its locals; for
\* setActiveDataSource also the producer that was registered as active when the call
\* was issued (prev, 0: none) and whether the call stopped it (was); fault: a
\* subscriber threw inside the producer method the call awaits
Cont(op, pc, id, i) ==
    [op |-> op, pc |-> pc, id |-> id, inst |-> i, was |-> FALSE, config |-> NoConfig,
     prev |-> 0, fault |-> FALSE]

InFlight == Cardinality(awaitingInit) + Len(ready)

\* ------------------------------------------------------------ the timers
\* The outcomes of Math.random() < chance
AnomalyOutcomes(chance) == {a \in BOOLEAN : (a => chance > 0) /\ (~a => chance < 100)}

AnomalyChance(p) == IF p.kind = "simulated" THEN p.cfg ELSE PcapAnomalyProbability

\* generateData / processPackets: whether a tick of the timer emits. Only the pcap
\* family re-checks running.
TickEmits(p) == IF p.kind = "simulated" THEN TRUE ELSE p.running

\* One firing of a producer's interval timer. A sample or an anomaly is
\* <<producer, timestamp>>.
Tick(i, max) ==
    /\ ready = <<>>
    /\ src[i].timers > 0
    /\ now < max
    /\ \A k \in 1..Len(hook.timeouts) : hook.timeouts[k].due > now
    /\ now' = now + 1
    /\ IF ~TickEmits(src[i])
       THEN /\ UNCHANGED <<coord, src, ui>>
            /\ ev' = [NoEv EXCEPT !.type = "tick", !.inst = i, !.id = src[i].wired,
                                  !.active = activeSource]
       ELSE \E a \in AnomalyOutcomes(AnomalyChance(src[i])) :
            LET p == src[i]
                n == p.dataPointsProcessed + 1
                m == p.anomaliesDetected + 1
                d == handleData(p.wired, <<i, now + 1>>)
                an == handleAnomaly(p.wired, <<i, now + 1>>)
            IN  /\ src' = [src EXCEPT ![i].dataPointsProcessed = n,
                                       ![i].anomaliesDetected = IF a THEN m ELSE @]
                /\ dataHistory' = IF p.wired # NoId THEN d.hist ELSE dataHistory
                /\ anomalyHistory' = IF a /\ p.wired # NoId THEN an.hist ELSE anomalyHistory
                /\ UNCHANGED <<dataSources, activeSource>>
                /\ hook' = LET h == IF p.wired # NoId
                                    THEN Plotted(hook, <<i, now + 1>>, d.to) ELSE hook
                           IN  IF a /\ p.wired # NoId
                               THEN Shown(h, <<i, now + 1>>, an.to, now + 1) ELSE h
                /\ isNew' = IF a /\ p.wired # NoId
                            THEN Marked(hook, isNew, <<i, now + 1>>, an.to) ELSE isNew
                /\ ev' = [NoEv EXCEPT !.type = "tick", !.inst = i, !.id = p.wired,
                                      !.active = activeSource, !.data = TRUE, !.anomaly = a,
                                      !.dataTo = IF p.wired # NoId THEN d.to ELSE 0,
                                      !.anomalyTo = IF a /\ p.wired # NoId THEN an.to ELSE 0]
    /\ UNCHANGED <<subs, awaitingInit, ready, route>>

\* The catch block of the timer callback: the producer after it and the statuses it
\* announced. generateData of simulated-source.ts counts the failure and calls the
\* error callbacks; the other variants go through handleError, which also calls
\* updateStatus("error", error.message).
Caught(p) ==
    IF p.kind = "simulated"
    THEN [p |-> [p EXCEPT !.errorCount = @ + 1], notes |-> <<>>]
    ELSE [p |-> [p EXCEPT !.errorCount = @ + 1, !.status = "error"], notes |-> <<"error">>]

\* One firing of a producer's interval timer in which a Coordinator subscriber throws:
\* an onData subscriber, or an onAnomaly subscriber when the tick has an anomaly. The
\* Coordinator has stored the event before it calls its subscribers; the exception
\* leaves handleData / handleAnomaly and the producer's forEach and reaches the catch
\* block of the timer callback, which calls the error callbacks. The subscriber that
\* throws is the k-th of its list: the ones after it are not called.
TickThrows(i, max) ==
    /\ ready = <<>>
    /\ src[i].timers > 0
    /\ now < max
    /\ TickEmits(src[i])
    /\ src[i].wired # NoId
    /\ src[i].wired = activeSource
    /\ now' = now + 1
    /\ \E a \in AnomalyOutcomes(AnomalyChance(src[i])) :
       \E at \in {"data"} \cup (IF a THEN {"anomaly"} ELSE {}) :
       \E k \in 1..(IF at = "data" THEN dataCallbacks ELSE anomalyCallbacks) :
       LET p == src[i]
           d == handleData(p.wired, <<i, now + 1>>)
           an == handleAnomaly(p.wired, <<i, now + 1>>)
           q == [p EXCEPT !.dataPointsProcessed = @ + 1,
                          !.anomaliesDetected = IF at = "anomaly" THEN @ + 1 ELSE @]
           r == Caught(q)
       IN  /\ src' = [src EXCEPT ![i] = r.p]
           /\ dataHistory' = d.hist
           /\ anomalyHistory' = IF at = "anomaly" THEN an.hist ELSE anomalyHistory
           /\ UNCHANGED <<dataSources, activeSource>>
           /\ ev' = [NoEv EXCEPT !.type = "tick", !.inst = i, !.id = p.wired,
                                 !.active = activeSource, !.data = TRUE,
                                 !.anomaly = (at = "anomaly"),
                                 !.dataTo = IF at = "data" THEN k ELSE d.to,
                                 !.anomalyTo = IF at = "anomaly" THEN k ELSE 0,
                                 !.fault = TRUE, !.notes = r.notes,
                                 !.statusTo = handleStatusChange(p.wired, r.notes).to,
                                 !.tag = handleError(p.wired).id,
                                 !.errs = handleError(p.wired).to]
    /\ UNCHANGED <<subs, awaitingInit, ready, route, ui>>

\* The delay inside initialize elapses: updateStatus("stopped"), return true, and the
\* addDataSource that awaited it becomes ready.
InitializeDone(t) ==
    /\ ready = <<>>
    /\ t \in awaitingInit
    /\ ~InitializeThrows(src[t.inst].kind, t.config)
    /\ src' = [src EXCEPT ![t.inst] = InitializeEnd(@)]
    /\ awaitingInit' = awaitingInit \ {t}
    /\ ready' = Append(ready, [t EXCEPT !.pc = "wire"])
    /\ ev' = [NoEv EXCEPT !.type = "init", !.inst = t.inst, !.id = t.id]
    /\ UNCHANGED <<coord, subs, now, route, ui>>

\* The delay inside initialize elapses and the rest of its try block throws: the
\* catch block calls handleError (no callback is wired yet) and returns false; the
\* addDataSource that awaited it becomes ready.
InitializeFails(t) ==
    /\ ready = <<>>
    /\ t \in awaitingInit
    /\ InitializeThrows(src[t.inst].kind, t.config)
    /\ src' = [src EXCEPT ![t.inst] = Caught(@).p]
    /\ awaitingInit' = awaitingInit \ {t}
    /\ ready' = Append(ready, [t EXCEPT !.pc = "failed"])
    /\ ev' = [NoEv EXCEPT !.type = "init", !.inst = t.inst, !.id = t.id, !.fault = TRUE]
    /\ UNCHANGED <<coord, subs, now, route, ui>>

\* the 5-second timer: every entry with the anomaly's id is replaced by a copy with
\* isNew false
TimeoutFires ==
    /\ ready = <<>>
    /\ hook.timeouts # <<>>
    /\ Head(hook.timeouts).due <= now
    /\ hook' = [hook EXCEPT
                   !.timeouts = Tail(@),
                   !.anomalies =
                       [k \in 1..Len(@) |->
                           IF @[k].id = Head(hook.timeouts).id
                           THEN [id |-> @[k].id, isNew |-> FALSE, own |-> TRUE]
                           ELSE @[k]]]
    /\ ev' = [NoEv EXCEPT !.type = "timeout"]
    /\ UNCHANGED <<coord, subs, src, awaitingInit, ready, now, route, isNew>>

\* getAnomalyHistory(): a new array of the stored objects
getAnomalyHistory ==
    [k \in 1..Len(anomalyHistory) |->
        [id |-> anomalyHistory[k], isNew |-> FALSE, own |-> FALSE]]

\* The effect of a hook runs (at mount, and again when isConnected or activeSourceId
\* changes): it registers its four handlers and sets its anomalies state to
\* getAnomalyHistory() and its trafficHistory to getDataHistory().
Mount(kind, most) ==
    /\ ready = <<>>
    /\ dataCallbacks < most
    /\ hook.kind \in {"none", kind}
    /\ dataCallbacks' = dataCallbacks + 1
    /\ anomalyCallbacks' = anomalyCallbacks + 1
    /\ statusCallbacks' = statusCallbacks + 1
    /\ errorCallbacks' = errorCallbacks + 1
    /\ hook' = [hook EXCEPT !.kind = kind, !.anomalies = getAnomalyHistory,
                            !.trafficHistory = dataHistory]
    /\ ev' = [NoEv EXCEPT !.type = "subscribe"]
    /\ UNCHANGED <<coord, src, awaitingInit, ready, now, route, isNew>>

\* The UI hook's effect, a task of its own, registers its four handlers (they cannot
\* be unregistered).
Subscribe ==
    /\ ready = <<>>
    /\ dataCallbacks < MaxSubs
    /\ dataCallbacks' = dataCallbacks + 1
    /\ anomalyCallbacks' = anomalyCallbacks + 1
    /\ statusCallbacks' = statusCallbacks + 1
    /\ errorCallbacks' = errorCallbacks + 1
    /\ ev' = [NoEv EXCEPT !.type = "subscribe"]
    /\ UNCHANGED <<coord, src, awaitingInit, ready, now, route, ui>>

\* ------------------------------------------- POST /api/network-data
\* Metric values are counted in sixteenths, so that 0.1 is 1.6 units.
Metrics == <<"packetsPerSecond", "bandwidth", "activeConnections", "errorRate">>

Fields == {"timestamp", "packetsPerSecond", "bandwidth", "activeConnections", "errorRate"}

\* NetworkDataSchema.parse(body) succeeds: every key is there and is a number
NetworkDataSchemaParses(body) ==
    /\ Fields \subseteq DOMAIN body
    /\ \A f \in Fields : body[f] # JsonNull

\* the value NetworkDataSchema.parse(body) returns: z.object keeps the keys of the
\* schema and strips every other key
NetworkDataSchemaParse(body) == [f \in Fields |-> body[f]]

NoResponse == [status |-> 0, anomaliesDetected |-> 0]

\* the switch (metric) of detectAnomalies
AnomalyType(metric) ==
    CASE metric = "packetsPerSecond" -> "traffic_spike"
      [] metric = "bandwidth" -> "bandwidth_anomaly"
      [] metric = "activeConnections" -> "connection_flood"
      [] metric = "errorRate" -> "packet_drop"

\* slice(-n)
LastN(s, n) == SubSeq(s, Max(1, Len(s) - n + 1), Len(s))

RECURSIVE SumSeq(_)
SumSeq(s) == IF s = <<>> THEN 0 ELSE Head(s) + SumSeq(Tail(s))

\* .map((data) => data[metric])
Values(w, metric) == [k \in 1..Len(w) |-> w[k][metric]]

\* With N values of sum S the mean is S / N and the population variance is
\* (N * sum of squares - S * S) / (N * N): this is its numerator.
NNVariance(values) ==
    Len(values) * SumSeq([k \in 1..Len(values) |-> values[k] * values[k]])
        - SumSeq(values) * SumSeq(values)

\* a detector that scored every metric whatever its standard deviation
StdDevTooSmall_Never(values) == FALSE

\* stdDev < 0.1
StdDevTooSmall(values) == 25 * NNVariance(values) < 64 * Len(values) * Len(values)

\* |x - mean| / stdDev > num / den
ZScoreAbove(values, x, num, den) ==
    LET dev == Len(values) * x - SumSeq(values)
    IN  den * den * dev * dev > num * num * NNVariance(values)

\* a classification with the labels of the two upper bands exchanged
Severity_Swapped(values, x) ==
    IF ZScoreAbove(values, x, ZSCORE_THRESHOLD * 2, 1) THEN "warning"
    ELSE IF ZScoreAbove(values, x, ZSCORE_THRESHOLD * 3, 2) THEN "critical"
    ELSE "info"

Severity(values, x) ==
    IF ZScoreAbove(values, x, ZSCORE_THRESHOLD * 2, 1) THEN "critical"
    ELSE IF ZScoreAbove(values, x, ZSCORE_THRESHOLD * 3, 2) THEN "warning"
    ELSE "info"

\* one round of the loop over the metrics: the anomalies it pushes
ScoreMetric(w, metric, currentData) ==
    LET values == Values(w, metric)
        x == currentData[metric]
    IN  IF StdDevTooSmall(values) THEN <<>>
        ELSE IF ZScoreAbove(values, x, ZSCORE_THRESHOLD, 1)
        THEN <<[timestamp |-> currentData.timestamp, type |-> AnomalyType(metric),
                severity |-> Severity(values, x), actualValue |-> x]>>
        ELSE <<>>

\* a detector that left the loop at the first metric it skips
detectAnomalies_BreakOnSkip(h, currentData) ==
    IF Len(h) < MinSamples THEN <<>>
    ELSE LET w == LastN(h, WindowSize)
             small(j) == StdDevTooSmall(Values(w, Metrics[j]))
             score(j) == ScoreMetric(w, Metrics[j], currentData)
         IN  IF small(1) THEN <<>> ELSE score(1) \o
            (IF small(2) THEN <<>> ELSE score(2) \o
            (IF small(3) THEN <<>> ELSE score(3) \o
            (IF small(4) THEN <<>> ELSE score(4))))

\* detectAnomalies(currentData), h being networkDataHistory when it is called
detectAnomalies(h, currentData) ==
    IF Len(h) < MinSamples THEN <<>>
    ELSE LET w == LastN(h, WindowSize)
         IN  ScoreMetric(w, Metrics[1], currentData) \o ScoreMetric(w, Metrics[2], currentData)
                 \o ScoreMetric(w, Metrics[3], currentData)
                 \o ScoreMetric(w, Metrics[4], currentData)

\* a handler that stored the body before it validated it
POST_PushFirst(body) ==
    /\ networkDataHistory' = Append(networkDataHistory, body)
    /\ IF ~NetworkDataSchemaParses(body)
       THEN /\ response' = [status |-> 400, anomaliesDetected |-> 0]
            /\ UNCHANGED detectedAnomalies
       ELSE LET anomalies == detectAnomalies(networkDataHistory', body)
            IN  /\ detectedAnomalies' = detectedAnomalies \o anomalies
                /\ response' = [status |-> 200, anomaliesDetected |-> Len(anomalies)]
    /\ ev' = [NoEv EXCEPT !.type = "post", !.res = NetworkDataSchemaParses(body),
                          !.body = body]
    /\ UNCHANGED <<coord, subs, src, awaitingInit, ready, now, ui>>

\* a POST that also handed its sample to the Coordinator's history
POST_Forwards(body) ==
    /\ IF ~NetworkDataSchemaParses(body)
       THEN /\ response' = [status |-> 400, anomaliesDetected |-> 0]
            /\ UNCHANGED <<networkDataHistory, detectedAnomalies, dataHistory>>
       ELSE LET validatedData == NetworkDataSchemaParse(body)
                pushed == Append(networkDataHistory, validatedData)
                anomalies == detectAnomalies(pushed, validatedData)
            IN  /\ networkDataHistory' = pushed
                /\ detectedAnomalies' = detectedAnomalies \o anomalies
                /\ dataHistory' = Append(dataHistory, <<0, body.timestamp>>)
                /\ response' = [status |-> 200, anomaliesDetected |-> Len(anomalies)]
    /\ ev' = [NoEv EXCEPT !.type = "post", !.res = NetworkDataSchemaParses(body),
                          !.body = body]
    /\ UNCHANGED <<dataSources, activeSource, anomalyHistory, subs, src, awaitingInit,
                   ready, now, ui>>

\* The handler after "await request.json()": parse, push, trim, detect, store.
POST(body) ==
    /\ IF ~NetworkDataSchemaParses(body)
       THEN /\ response' = [status |-> 400, anomaliesDetected |-> 0]
            /\ UNCHANGED <<networkDataHistory, detectedAnomalies>>
       ELSE LET validatedData == NetworkDataSchemaParse(body)
                pushed == Append(networkDataHistory, validatedData)
                h == IF Len(pushed) > MaxNetworkDataHistory
                     THEN LastN(pushed, MaxNetworkDataHistory) ELSE pushed
                anomalies == detectAnomalies(h, validatedData)
                all == detectedAnomalies \o anomalies
            IN  /\ networkDataHistory' = h
                /\ detectedAnomalies' =
                       IF Len(anomalies) > 0
                       THEN (IF Len(all) > MaxDetectedAnomalies
                             THEN LastN(all, MaxDetectedAnomalies) ELSE all)
                       ELSE detectedAnomalies
                /\ response' = [status |-> 200, anomaliesDetected |-> Len(anomalies)]
    /\ ev' = [NoEv EXCEPT !.type = "post", !.res = NetworkDataSchemaParses(body),
                          !.body = body]
    /\ UNCHANGED <<coord, subs, src, awaitingInit, ready, now, ui>>

\* what GET /api/network-data answers: the Coordinator's latest sample (none: the
\* empty sequence), its last 60 samples and its anomaly history
GETBody ==
    [current |-> IF Len(dataHistory) > 0 THEN <<dataHistory[Len(dataHistory)]>> ELSE <<>>,
     history |-> LastN(dataHistory, 60),
     anomalies |-> anomalyHistory]

GET ==
    /\ response' = [status |-> 200, anomaliesDetected |-> 0, body |-> GETBody]
    /\ ev' = [NoEv EXCEPT !.type = "get"]
    /\ UNCHANGED <<coord, subs, src, awaitingInit, ready, now, ui,
                   networkDataHistory, detectedAnomalies>>

\* The request bodies: a quiet sample (1.0 everywhere), two samples that leave it,
\* a body without its metrics, a body with a metric that is not a number, and a
\* quiet sample with a key the schema does not know.
Quiet(t) ==
    [timestamp |-> t, packetsPerSecond |-> 16, bandwidth |-> 16,
     activeConnections |-> 16, errorRate |-> 16]

Spike(t) == [Quiet(t) EXCEPT !.packetsPerSecond = 96, !.bandwidth = 17]

Storm(t) == [Quiet(t) EXCEPT !.activeConnections = 96, !.errorRate = 64]

Malformed(t) == [timestamp |-> t]

Mistyped(t) == [Quiet(t) EXCEPT !.errorRate = JsonNull]

Annotated(t) ==
    [timestamp |-> t, packetsPerSecond |-> 16, bandwidth |-> 16,
     activeConnections |-> 16, errorRate |-> 16, note |-> 0]

Odd(h) == Cardinality({k \in 1..Len(h) : h[k] # Quiet(h[k].timestamp)})

Bodies ==
    LET t == Len(networkDataHistory) + 1
    IN  {Quiet(t), Malformed(t), Mistyped(t), Annotated(t)}
            \cup (IF Odd(networkDataHistory) < MaxOdd THEN {Spike(t), Storm(t)} ELSE {})

\* ------------------------------------------------- Coordinator: the calls
\* Every call takes the number of calls that may be in flight when it is issued.

\* an addDataSource without the test for an id that is already registered
addDataSource_Unchecked(id, type, config, limit) ==
    /\ InFlight < limit
    /\ Len(src) < MaxInst
    /\ src' = Append(src, InitializeBegin(NewSource(type), config))
    /\ awaitingInit' = awaitingInit \cup
           {[Cont("addDataSource", "init", id, Len(src) + 1) EXCEPT !.config = config]}
    /\ ev' = Suspended("addDataSource", id, Len(src) + 1)
    /\ UNCHANGED <<coord, subs, ready, now, route, ui>>

\* addDataSource up to "await dataSource.initialize(config)", in a run that constructs
\* at most `most` producers
addDataSourceUpTo(id, type, config, limit, most) ==
    /\ InFlight < limit
    /\ IF Has(id)
       THEN /\ ev' = Failed("addDataSource", id)
            /\ UNCHANGED <<src, awaitingInit>>
       ELSE /\ Len(src) < most
            /\ src' = Append(src, InitializeBegin(NewSource(type), config))
            /\ awaitingInit' =
                   awaitingInit \cup {[Cont("addDataSource", "init", id, Len(src) + 1)
                                           EXCEPT !.config = config]}
            /\ ev' = Suspended("addDataSource", id, Len(src) + 1)
    /\ UNCHANGED <<coord, subs, ready, now, route, ui>>

addDataSource(id, type, config, limit) == addDataSourceUpTo(id, type, config, limit, MaxInst)

\* The map held the last reference to producer i unless a suspended call holds it or
\* one of its timers is still armed.
Unreferenced(i, conts) ==
    /\ src[i].timers = 0
    /\ \A k \in 1..Len(conts) : conts[k].inst # i
    /\ \A t \in awaitingInit : t.inst # i

\* the producers s once the map has dropped its reference to producer i (0: none)
Forget(s, i, conts) ==
    IF i # 0 /\ Unreferenced(i, conts) THEN [s EXCEPT ![i] = Collected] ELSE s

\* an insertion that made every new source the active one
ActiveAfterInsert_Always(m, id, active) == id

\* if (this.dataSources.size === 1) this.activeSource = id
ActiveAfterInsert(m, id, active) == IF Len(m) = 1 THEN id ELSE active

\* addDataSource after initialize returned true: wire the four handlers, insert,
\* make the source active if the map now holds one entry
addDataSourceWire ==
    /\ ready # <<>>
    /\ Head(ready).op = "addDataSource"
    /\ Head(ready).pc = "wire"
    /\ LET t == Head(ready)
       IN  /\ src' = [Forget(src, Get(t.id), Tail(ready)) EXCEPT ![t.inst].wired = t.id]
           /\ dataSources' = MapSet(dataSources, t.id, t.inst)
           /\ activeSource' = ActiveAfterInsert(dataSources', t.id, activeSource)
           /\ ev' = Returned("addDataSource", t.id, t.inst, TRUE)
    /\ ready' = Tail(ready)
    /\ UNCHANGED <<dataHistory, anomalyHistory, subs, awaitingInit, now, route, ui>>

\* an addDataSource that registered the producer whatever initialize returned
addDataSourceThrow_Ignored ==
    /\ ready # <<>>
    /\ Head(ready).pc = "failed"
    /\ LET t == Head(ready)
       IN  /\ src' = [Forget(src, Get(t.id), Tail(ready)) EXCEPT ![t.inst].wired = t.id]
           /\ dataSources' = MapSet(dataSources, t.id, t.inst)
           /\ activeSource' = ActiveAfterInsert(dataSources', t.id, activeSource)
           /\ ev' = [Returned("addDataSource", t.id, t.inst, TRUE) EXCEPT !.fault = TRUE]
    /\ ready' = Tail(ready)
    /\ UNCHANGED <<dataHistory, anomalyHistory, subs, awaitingInit, now, route, ui>>

\* addDataSource after initialize returned false: throw, and the catch block calls
\* handleError(id, error) and returns false; the producer is referenced by nothing
addDataSourceThrow ==
    /\ ready # <<>>
    /\ Head(ready).pc = "failed"
    /\ LET t == Head(ready)
       IN  /\ src' = Forget(src, t.inst, Tail(ready))
           /\ ev' = [Failed("addDataSource", t.id) EXCEPT !.inst = t.inst, !.fault = TRUE]
    /\ ready' = Tail(ready)
    /\ UNCHANGED <<coord, subs, awaitingInit, now, route, ui>>

\* a removal that promoted the last remaining source
AfterDelete_PromotesLast(id) ==
    LET m == MapDelete(dataSources, id)
    IN  [m |-> m,
         active |-> IF activeSource = id
                    THEN (IF Len(m) > 0 THEN m[Len(m)].id ELSE NoId)
                    ELSE activeSource]

\* removeDataSource from "this.dataSources.delete(id)": the map and the active id after it
AfterDelete(id) ==
    LET m == MapDelete(dataSources, id)
    IN  [m |-> m,
         active |-> IF activeSource = id
                    THEN (IF Len(m) > 0 THEN m[1].id ELSE NoId)
                    ELSE activeSource]

\* a removal that reported an unknown id to the error subscribers
removeDataSource_Reports(id, limit) ==
    /\ InFlight < limit
    /\ LET i == Get(id)
       IN  IF i = 0
           THEN /\ ev' = Failed("removeDataSource", id)
                /\ UNCHANGED <<coord, src, ready>>
           ELSE IF src[i].running
           THEN LET r == Stop(src[i])
                IN  /\ src' = [src EXCEPT ![i] = r.p]
                    /\ ready' = Append(ready, Cont("removeDataSource", "delete", id, i))
                    /\ ev' = WithProducer(Suspended("removeDataSource", id, i),
                                          "stop", TRUE, r.notes)
                    /\ UNCHANGED coord
           ELSE /\ dataSources' = AfterDelete(id).m
                /\ activeSource' = AfterDelete(id).active
                /\ src' = Forget(src, i, ready)
                /\ ev' = [Returned("removeDataSource", id, i, TRUE)
                            EXCEPT !.active = activeSource]
                /\ UNCHANGED <<dataHistory, anomalyHistory, ready>>
    /\ UNCHANGED <<subs, awaitingInit, now, route, ui>>

removeDataSource(id, limit) ==
    /\ InFlight < limit
    /\ LET i == Get(id)
       IN  IF i = 0
           THEN /\ ev' = Returned("removeDataSource", id, 0, FALSE)
                /\ UNCHANGED <<coord, src, ready>>
           ELSE IF src[i].running
           THEN LET r == Stop(src[i])
                IN  /\ src' = [src EXCEPT ![i] = r.p]
                    /\ ready' = Append(ready, Cont("removeDataSource", "delete", id, i))
                    /\ ev' = WithProducer(Suspended("removeDataSource", id, i),
                                          "stop", TRUE, r.notes)
                    /\ UNCHANGED coord
           ELSE /\ dataSources' = AfterDelete(id).m
                /\ activeSource' = AfterDelete(id).active
                /\ src' = Forget(src, i, ready)
                /\ ev' = [Returned("removeDataSource", id, i, TRUE)
                            EXCEPT !.active = activeSource]
                /\ UNCHANGED <<dataHistory, anomalyHistory, ready>>
    /\ UNCHANGED <<subs, awaitingInit, now, route, ui>>

\* a removal that took the removed producer's events out of the histories
removeDataSourceDelete_Purges ==
    /\ ready # <<>>
    /\ Head(ready).op = "removeDataSource"
    /\ LET t == Head(ready)
       IN  /\ dataSources' = AfterDelete(t.id).m
           /\ activeSource' = AfterDelete(t.id).active
           /\ src' = Forget(src, t.inst, Tail(ready))
           /\ dataHistory' = SelectSeq(dataHistory, LAMBDA d : d[1] # t.inst)
           /\ anomalyHistory' = SelectSeq(anomalyHistory, LAMBDA d : d[1] # t.inst)
           /\ ev' = [Returned("removeDataSource", t.id, t.inst, TRUE)
                       EXCEPT !.active = activeSource, !.was = TRUE]
    /\ ready' = Tail(ready)
    /\ UNCHANGED <<subs, awaitingInit, now, route, ui>>

removeDataSourceDelete ==
    /\ ready # <<>>
    /\ Head(ready).op = "removeDataSource"
    /\ LET t == Head(ready)
       IN  /\ dataSources' = AfterDelete(t.id).m
           /\ activeSource' = AfterDelete(t.id).active
           /\ src' = Forget(src, t.inst, Tail(ready))
           /\ ev' = [Returned("removeDataSource", t.id, t.inst, TRUE)
                       EXCEPT !.active = activeSource, !.was = TRUE]
    /\ ready' = Tail(ready)
    /\ UNCHANGED <<dataHistory, anomalyHistory, subs, awaitingInit, now, route, ui>>

\* a switch that never stopped the current active producer
CurrentActiveToStop_None(active) == 0

\* setActiveDataSource: the running producer registered under the active id, which is
\* stopped first (0: none)
CurrentActiveToStop(active) ==
    IF active # NoId /\ Get(active) # 0 /\ src[Get(active)].running
    THEN Get(active)
    ELSE 0

\* a switch that never started the new active producer
NewActiveToStart_Never(id) == 0

\* setActiveDataSource: the producer registered under id if it has to be started (0: none)
NewActiveToStart(id) == IF Get(id) # 0 /\ ~src[Get(id)].running THEN Get(id) ELSE 0

\* setActiveDataSource from "this.activeSource = id"; rest is the queue without this call
SetActiveBody(id, prev, was, rest) ==
    /\ activeSource' = id
    /\ LET j == NewActiveToStart(id)
       IN  IF j # 0
           THEN LET r == Start(src[j])
                IN  /\ src' = [src EXCEPT ![j] = r.p]
                    /\ ready' = Append(rest, [Cont("setActiveDataSource", "ret", id, j)
                                                EXCEPT !.prev = prev, !.was = was])
                    /\ ev' = WithProducer(Suspended("setActiveDataSource", id, j),
                                          "start", FALSE, r.notes)
           ELSE /\ ready' = rest
                /\ ev' = [Returned("setActiveDataSource", id, Get(id), TRUE)
                            EXCEPT !.prev = prev, !.was = was]
                /\ UNCHANGED src
    /\ UNCHANGED <<dataSources, dataHistory, anomalyHistory>>

\* a switch that stopped the active producer before it looked the id up
setActiveDataSource_StopsFirst(id, limit) ==
    /\ InFlight < limit
    /\ LET c == CurrentActiveToStop(activeSource)
       IN  IF c # 0
           THEN LET r == Stop(src[c])
                IN  /\ src' = [src EXCEPT ![c] = r.p]
                    /\ ready' = Append(ready, [Cont("setActiveDataSource", "set", id, c)
                                                 EXCEPT !.prev = c, !.was = TRUE])
                    /\ ev' = WithProducer(Suspended("setActiveDataSource", id, c),
                                          "stop", TRUE, r.notes)
                    /\ UNCHANGED coord
           ELSE IF ~Has(id)
           THEN /\ ev' = Failed("setActiveDataSource", id)
                /\ UNCHANGED <<coord, src, ready>>
           ELSE SetActiveBody(id, Get(activeSource), FALSE, ready)
    /\ UNCHANGED <<subs, awaitingInit, now, route, ui>>

setActiveDataSource(id, limit) ==
    /\ InFlight < limit
    /\ IF ~Has(id)
       THEN /\ ev' = Failed("setActiveDataSource", id)
            /\ UNCHANGED <<coord, src, ready>>
       ELSE LET c == CurrentActiveToStop(activeSource)
            IN  IF c # 0
                THEN LET r == Stop(src[c])
                     IN  /\ src' = [src EXCEPT ![c] = r.p]
                         /\ ready' = Append(ready, [Cont("setActiveDataSource", "set", id, c)
                                                      EXCEPT !.prev = c, !.was = TRUE])
                         /\ ev' = WithProducer(Suspended("setActiveDataSource", id, c),
                                               "stop", TRUE, r.notes)
                         /\ UNCHANGED coord
                ELSE SetActiveBody(id, Get(activeSource), FALSE, ready)
    /\ UNCHANGED <<subs, awaitingInit, now, route, ui>>

setActiveDataSourceSet ==
    /\ ready # <<>>
    /\ Head(ready).op = "setActiveDataSource"
    /\ Head(ready).pc = "set"
    /\ SetActiveBody(Head(ready).id, Head(ready).prev, Head(ready).was, Tail(ready))
    /\ UNCHANGED <<subs, awaitingInit, now, route, ui>>

\* a start that also made the source the active one
startDataSource_Activates(id, limit) ==
    /\ InFlight < limit
    /\ LET i == Get(id)
       IN  IF i = 0
           THEN /\ ev' = Failed("startDataSource", id)
                /\ UNCHANGED <<src, ready, activeSource>>
           ELSE IF ~src[i].running
           THEN LET r == Start(src[i])
                IN  /\ src' = [src EXCEPT ![i] = r.p]
                    /\ ready' = Append(ready, Cont("startDataSource", "ret", id, i))
                    /\ ev' = WithProducer(Suspended("startDataSource", id, i),
                                          "start", FALSE, r.notes)
                    /\ activeSource' = id
           ELSE /\ ev' = Returned("startDataSource", id, i, TRUE)
                /\ UNCHANGED <<src, ready, activeSource>>
    /\ UNCHANGED <<dataSources, dataHistory, anomalyHistory, subs, awaitingInit, now, route, ui>>

startDataSource(id, limit) ==
    /\ InFlight < limit
    /\ LET i == Get(id)
       IN  IF i = 0
           THEN /\ ev' = Failed("startDataSource", id)
                /\ UNCHANGED <<src, ready>>
           ELSE IF ~src[i].running
           THEN LET r == Start(src[i])
                IN  /\ src' = [src EXCEPT ![i] = r.p]
                    /\ ready' = Append(ready, Cont("startDataSource", "ret", id, i))
                    /\ ev' = WithProducer(Suspended("startDataSource", id, i),
                                          "start", FALSE, r.notes)
           ELSE /\ ev' = Returned("startDataSource", id, i, TRUE)
                /\ UNCHANGED <<src, ready>>
    /\ UNCHANGED <<coord, subs, awaitingInit, now, route, ui>>

stopDataSource(id, limit) ==
    /\ InFlight < limit
    /\ LET i == Get(id)
       IN  IF i = 0
           THEN /\ ev' = Failed("stopDataSource", id)
                /\ UNCHANGED <<src, ready>>
           ELSE IF src[i].running
           THEN LET r == Stop(src[i])
                IN  /\ src' = [src EXCEPT ![i] = r.p]
                    /\ ready' = Append(ready, Cont("stopDataSource", "ret", id, i))
                    /\ ev' = WithProducer(Suspended("stopDataSource", id, i),
                                          "stop", TRUE, r.notes)
           ELSE /\ ev' = Returned("stopDataSource", id, i, TRUE)
                /\ UNCHANGED <<src, ready>>
    /\ UNCHANGED <<coord, subs, awaitingInit, now, route, ui>>

\* updateDataSourceConfig and the producer's updateConfiguration up to its first await:
\* "await this.stop()" when it runs, else the merge and the caller's "return await"
updateDataSourceConfig(id, config, limit) ==
    /\ InFlight < limit
    /\ LET i == Get(id)
       IN  IF i = 0
           THEN /\ ev' = Failed("updateDataSourceConfig", id)
                /\ UNCHANGED <<src, ready>>
           ELSE IF src[i].running
           THEN LET r == Stop(src[i])
                IN  /\ src' = [src EXCEPT ![i] = r.p]
                    /\ ready' = Append(ready,
                           [Cont("updateDataSourceConfig", "merge", id, i)
                              EXCEPT !.was = TRUE, !.config = config])
                    /\ ev' = WithProducer(Suspended("updateDataSourceConfig", id, i),
                                          "stop", TRUE, r.notes)
           ELSE /\ src' = [src EXCEPT ![i] = MergeConfig(@, config)]
                /\ ready' = Append(ready, [Cont("updateDataSourceConfig", "ret", id, i)
                                             EXCEPT !.config = config])
                /\ ev' = Suspended("updateDataSourceConfig", id, i)
    /\ UNCHANGED <<coord, subs, awaitingInit, now, route, ui>>

\* getDataSource(id).start(), awaited by its caller
producerStart(id, limit) ==
    /\ InFlight < limit
    /\ Get(id) # 0
    /\ LET i == Get(id)
           r == Start(src[i])
       IN  /\ src' = [src EXCEPT ![i] = r.p]
           /\ ready' = Append(ready, Cont("start", "ret", id, i))
           /\ ev' = WithProducer(Suspended("start", id, i), "start", src[i].running, r.notes)
    /\ UNCHANGED <<coord, subs, awaitingInit, now, route, ui>>

\* getDataSource(id).stop(), awaited by its caller
producerStop(id, limit) ==
    /\ InFlight < limit
    /\ Get(id) # 0
    /\ LET i == Get(id)
           r == Stop(src[i])
       IN  /\ src' = [src EXCEPT ![i] = r.p]
           /\ ready' = Append(ready, Cont("stop", "ret", id, i))
           /\ ev' = WithProducer(Suspended("stop", id, i), "stop", src[i].running, r.notes)
    /\ UNCHANGED <<coord, subs, awaitingInit, now, route, ui>>

\* updateConfiguration after "await this.stop()": merge, then "await this.start()"
updateConfigurationMerge ==
    /\ ready # <<>>
    /\ Head(ready).pc = "merge"
    /\ LET t == Head(ready)
           q == MergeConfig(src[t.inst], t.config)
           r == Start(q)
       IN  /\ src' = [src EXCEPT ![t.inst] = r.p]
           /\ ready' = Append(Tail(ready), [t EXCEPT !.pc = "ret"])
           /\ ev' = WithProducer(Suspended(t.op, t.id, t.inst), "start", q.running, r.notes)
    /\ UNCHANGED <<coord, subs, awaitingInit, now, route, ui>>

\* a call whose last await resolved returns true
ReturnTrue ==
    /\ ready # <<>>
    /\ Head(ready).pc = "ret"
    /\ ev' = [Returned(Head(ready).op, Head(ready).id, Head(ready).inst, TRUE)
                EXCEPT !.prev = Head(ready).prev, !.was = Head(ready).was,
                       !.fault = Head(ready).fault]
    /\ ready' = Tail(ready)
    /\ UNCHANGED <<coord, subs, src, awaitingInit, now, route, ui>>

\* start() with an onStatus subscriber that throws on the first status start
\* announces and on no other. simulated-source.ts: running is set, updateStatus
\* throws before setInterval, and start() rejects. The capture family: updateStatus
\* ("initializing") throws inside try; catch calls handleError (errorCount++,
\* updateStatus("error"), the error callbacks) and start() resolves.
StartThrows(p) ==
    IF p.kind = "simulated"
    THEN [p |-> [p EXCEPT !.running = TRUE, !.status = "running"],
          notes |-> <<"running">>, rejects |-> TRUE]
    ELSE [p |-> [p EXCEPT !.status = "error", !.errorCount = @ + 1],
          notes |-> <<"initializing", "error">>, rejects |-> FALSE]

\* stop() with an onStatus subscriber that throws on "stopped" and on no other status
StopThrows(p) ==
    LET q == [p EXCEPT !.running = FALSE, !.interval = FALSE,
                       !.timers = IF p.interval THEN @ - 1 ELSE @, !.period = 0]
    IN  IF p.kind = "simulated"
        THEN [p |-> [q EXCEPT !.status = "stopped"],
              notes |-> <<"stopped">>, rejects |-> TRUE]
        ELSE [p |-> [q EXCEPT !.status = "error", !.errorCount = @ + 1],
              notes |-> <<"stopped", "error">>, rejects |-> FALSE]

\* startDataSource / stopDataSource on a registered producer whose start() / stop()
\* meets the throwing subscriber. A rejected await resumes in the catch block; a
\* producer that caught the failure itself has told the Coordinator's error
\* subscribers through its own error callback, and the call goes on to "return true".
\* The subscriber that throws is the k-th onStatus subscriber.
AwaitThrows(op, id, i, r) ==
    /\ src[i].errorCount < MaxFaults
    /\ src' = [src EXCEPT ![i] = r.p]
    /\ ready' = Append(ready, [Cont(op, IF r.rejects THEN "catch" ELSE "ret", id, i)
                                 EXCEPT !.fault = TRUE])
    /\ \E k \in 1..statusCallbacks :
          ev' = [WithProducer(Suspended(op, id, i),
                              IF op = "startDataSource" THEN "start" ELSE "stop",
                              src[i].running, r.notes)
                   EXCEPT !.fault = TRUE,
                          !.statusTo = k + handleStatusChange(src[i].wired, Tail(r.notes)).to,
                          !.errs = IF r.rejects THEN 0 ELSE handleError(src[i].wired).to]
    /\ UNCHANGED <<coord, subs, awaitingInit, now, route, ui>>

startDataSourceThrows(id, limit) ==
    /\ InFlight < limit
    /\ Get(id) # 0
    /\ ~src[Get(id)].running
    /\ AwaitThrows("startDataSource", id, Get(id), StartThrows(src[Get(id)]))

stopDataSourceThrows(id, limit) ==
    /\ InFlight < limit
    /\ Get(id) # 0
    /\ src[Get(id)].running
    /\ AwaitThrows("stopDataSource", id, Get(id), StopThrows(src[Get(id)]))

\* the catch block of a Coordinator method after a rejected await: handleError(id,
\* error); return false
CatchBlock ==
    /\ ready # <<>>
    /\ Head(ready).pc = "catch"
    /\ ev' = [Failed(Head(ready).op, Head(ready).id)
                EXCEPT !.inst = Head(ready).inst, !.fault = TRUE]
    /\ ready' = Tail(ready)
    /\ UNCHANGED <<coord, subs, src, awaitingInit, now, route, ui>>

\* ------------------------------------------------------- specifications
\* After construction: the constructor's un-awaited addDataSource("simulated",
\* "simulated") is suspended inside initialize.
Init ==
    /\ dataSources = <<>>
    /\ activeSource = NoId
    /\ dataCallbacks = 0
    /\ anomalyCallbacks = 0
    /\ statusCallbacks = 0
    /\ errorCallbacks = 0
    /\ dataHistory = <<>>
    /\ anomalyHistory = <<>>
    /\ src = <<InitializeBegin(NewSource("simulated"), NoConfig)>>
    /\ awaitingInit = {Cont("addDataSource", "init", "simulated", 1)}
    /\ ready = <<>>
    /\ now = 0
    /\ networkDataHistory = <<>>
    /\ detectedAnomalies = <<>>
    /\ response = NoResponse
    /\ hook = NoHook
    /\ isNew = {}
    /\ ev = NoEv

\* A request handler or a UI event is a macrotask: it issues its call when no
\* microtask is pending, so a call overlaps only addDataSource calls that wait for
\* initialize's delay. NextCalls leaves the producers' timers out.
NextCalls ==
    \/ \E id \in Ids : \E type \in TypesOf(id), config \in NoConfigs :
           ready = <<>> /\ addDataSource(id, type, config, MaxTasks)
    \/ \E id \in Ids : ready = <<>> /\ removeDataSource(id, MaxTasks)
    \/ \E id \in Ids : ready = <<>> /\ setActiveDataSource(id, MaxTasks)
    \/ \E id \in Ids : ready = <<>> /\ startDataSource(id, MaxTasks)
    \/ \E id \in Ids : ready = <<>> /\ stopDataSource(id, MaxTasks)
    \/ \E id \in Ids, config \in NoConfigs :
           ready = <<>> /\ updateDataSourceConfig(id, config, MaxTasks)
    \/ addDataSourceWire
    \/ removeDataSourceDelete
    \/ setActiveDataSourceSet
    \/ updateConfigurationMerge
    \/ ReturnTrue
    \/ \E t \in awaitingInit : InitializeDone(t)
    \/ Subscribe

SpecCalls == Init /\ [][NextCalls]_vars

Next ==
    \/ NextCalls
    \/ \E i \in 1..Len(src) : Tick(i, MaxTicks)

Spec == Init /\ [][Next]_vars

\* The caller that uses addDataSource, setActiveDataSource and removeDataSource only
\* and awaits each call before it issues the next one. The constructor's own
\* addDataSource is awaited by nobody and may still be suspended.
ConstructorsAdd == Cont("addDataSource", "init", "simulated", 1)

Sequential == ready = <<>> /\ awaitingInit \subseteq {ConstructorsAdd}

NextSeq ==
    \/ \E id \in Ids : \E type \in TypesOf(id), config \in Configs :
           Sequential /\ addDataSource(id, type, config, MaxTasks)
    \/ \E id \in Ids : Sequential /\ removeDataSource(id, MaxTasks)
    \/ \E id \in Ids : Sequential /\ setActiveDataSource(id, MaxTasks)
    \/ addDataSourceWire
    \/ removeDataSourceDelete
    \/ setActiveDataSourceSet
    \/ ReturnTrue
    \/ \E t \in awaitingInit : InitializeDone(t)
    \/ \E i \in 1..Len(src) : Tick(i, MaxTicks)

SpecSeq == Init /\ [][NextSeq]_vars

\* A long run of the default source: its anomalyProbability is set to 0 or to 1 once
\* it is registered, then it is made active and its timer ticks.
NextHist ==
    \/ \E t \in awaitingInit : InitializeDone(t)
    \/ addDataSourceWire
    \/ \E config \in HistConfigs :
           /\ Sequential
           /\ Config(src[1].cfg) \notin HistConfigs
           /\ updateDataSourceConfig("simulated", config, MaxTasks)
    \/ ReturnTrue
    \/ /\ Sequential
       /\ Config(src[1].cfg) \in HistConfigs
       /\ ~src[1].running
       /\ setActiveDataSource("simulated", MaxTasks)
    \/ Tick(1, HistTicks)

SpecHist == Init /\ [][NextHist]_vars

\* The holder of a registered producer calls its start, stop and updateConfiguration
\* whenever it likes, also while an earlier call is in flight.
NextProd ==
    \/ \E t \in awaitingInit : InitializeDone(t)
    \/ \E id \in Ids : \E type \in TypesOf(id), config \in NoConfigs :
           ready = <<>> /\ addDataSource(id, type, config, MaxTasks)
    \/ addDataSourceWire
    \/ \E id \in Ids : producerStart(id, MaxTasks)
    \/ \E id \in Ids : producerStop(id, MaxTasks)
    \/ \E id \in Ids, config \in NoConfigs : updateDataSourceConfig(id, config, MaxTasks)
    \/ updateConfigurationMerge
    \/ ReturnTrue

SpecProd == Init /\ [][NextProd]_vars

\* The clients of POST /api/network-data.
NextPost ==
    \E body \in Bodies : Len(networkDataHistory) < MaxPosts /\ POST(body)

SpecPost == Init /\ [][NextPost]_vars

\* A steady stream and a burst: packetsPerSecond stays within 1% of its centre for
\* 30 samples (6.25 +- 0.0625, that is 100 +- 1 sixteenths), then one sample has four
\* times the centre (25.0); the other metrics do not change. The z-score is a ratio:
\* these are the numbers 500 +- 5 and 2000 divided by 80.
Steady(t, d) == [Quiet(t) EXCEPT !.packetsPerSecond = 100 + d]

Burst(t) == [Quiet(t) EXCEPT !.packetsPerSecond = 400]

Drift(h) == Cardinality({k \in 1..Len(h) : h[k].packetsPerSecond \notin {100, 400}})

NextFeed ==
    \/ \E d \in {-1, 0, 1} :
           /\ Len(networkDataHistory) < WindowSize
           /\ d # 0 => Drift(networkDataHistory) < MaxDrift
           /\ POST(Steady(Len(networkDataHistory) + 1, d))
    \/ /\ Len(networkDataHistory) = WindowSize
       /\ POST(Burst(Len(networkDataHistory) + 1))

SpecFeed == Init /\ [][NextFeed]_vars

\* The clients whose samples are all well-formed and leave the quiet one in
\* packetsPerSecond and bandwidth only: the windows the scoring is examined on.
ScoreBodies ==
    LET t == Len(networkDataHistory) + 1
    IN  {Quiet(t)} \cup (IF Odd(networkDataHistory) < MaxOdd THEN {Spike(t)} ELSE {})

NextScore ==
    \E body \in ScoreBodies : Len(networkDataHistory) < MaxPosts /\ POST(body)

SpecScore == Init /\ [][NextScore]_vars

\* The sequential caller of addDataSource, setActiveDataSource and removeDataSource
\* with three ids to register.
NextReg ==
    \/ \E id \in RegIds : \E type \in TypesOf(id), config \in NoConfigs :
           Sequential /\ addDataSourceUpTo(id, type, config, MaxTasks, MaxReg)
    \/ \E id \in RegIds : Sequential /\ removeDataSource(id, MaxTasks)
    \/ \E id \in RegIds : Sequential /\ setActiveDataSource(id, MaxTasks)
    \/ addDataSourceWire
    \/ removeDataSourceDelete
    \/ setActiveDataSourceSet
    \/ ReturnTrue
    \/ \E t \in awaitingInit : InitializeDone(t)

SpecReg == Init /\ [][NextReg]_vars

\* Administrative start and stop: sources are registered and started or stopped by
\* id, and no call switches the active source.
NextAdmin ==
    \/ \E id \in Ids : \E type \in TypesOf(id), config \in NoConfigs :
           ready = <<>> /\ addDataSource(id, type, config, MaxTasks)
    \/ \E id \in Ids : ready = <<>> /\ startDataSource(id, MaxTasks)
    \/ \E id \in Ids : ready = <<>> /\ stopDataSource(id, MaxTasks)
    \/ addDataSourceWire
    \/ ReturnTrue
    \/ \E t \in awaitingInit : InitializeDone(t)
    \/ \E i \in 1..Len(src) : Tick(i, AdminTicks)

SpecAdmin == Init /\ [][NextAdmin]_vars

\* The caller of updateDataSourceConfig: it registers sources, starts and stops them
\* and changes their configuration one key at a time.
ConfConfigs == {NoConfig, Config(100), Every(2000)}

NextConf ==
    \/ \E id \in Ids : \E type \in TypesOf(id), config \in NoConfigs :
           ready = <<>> /\ addDataSource(id, type, config, MaxTasks)
    \/ \E id \in Ids : ready = <<>> /\ startDataSource(id, MaxTasks)
    \/ \E id \in Ids : ready = <<>> /\ stopDataSource(id, MaxTasks)
    \/ \E id \in Ids, config \in ConfConfigs :
           ready = <<>> /\ updateDataSourceConfig(id, config, MaxTasks)
    \/ addDataSourceWire
    \/ updateConfigurationMerge
    \/ ReturnTrue
    \/ \E t \in awaitingInit : InitializeDone(t)

SpecConf == Init /\ [][NextConf]_vars

\* A run with a subscriber that throws: sources are registered and activated, the UI
\* hook subscribes, and a tick either goes through or meets the throwing subscriber.
NextFault ==
    \/ \E id \in Ids : \E type \in TypesOf(id), config \in NoConfigs :
           Sequential /\ addDataSource(id, type, config, MaxTasks)
    \/ \E id \in Ids : Sequential /\ setActiveDataSource(id, MaxTasks)
    \/ addDataSourceWire
    \/ setActiveDataSourceSet
    \/ ReturnTrue
    \/ \E t \in awaitingInit : InitializeDone(t)
    \/ Subscribe
    \/ \E i \in 1..Len(src) : Tick(i, FaultTicks)
    \/ \E i \in 1..Len(src) : TickThrows(i, FaultTicks)

SpecFault == Init /\ [][NextFault]_vars

\* Start and stop through the Coordinator with an onStatus subscriber that may throw.
NextThrow ==
    \/ \E id \in Ids : \E type \in TypesOf(id), config \in NoConfigs :
           ready = <<>> /\ addDataSource(id, type, config, MaxTasks)
    \/ \E id \in Ids : ready = <<>> /\ startDataSource(id, MaxTasks)
    \/ \E id \in Ids : ready = <<>> /\ stopDataSource(id, MaxTasks)
    \/ \E id \in Ids : ready = <<>> /\ startDataSourceThrows(id, MaxTasks)
    \/ \E id \in Ids : ready = <<>> /\ stopDataSourceThrows(id, MaxTasks)
    \/ addDataSourceWire
    \/ ReturnTrue
    \/ CatchBlock
    \/ \E t \in awaitingInit : InitializeDone(t)
    \/ Subscribe

SpecThrow == Init /\ [][NextThrow]_vars

\* One source is made active and left alone: sources are registered, each under an id
\* of its own, and the UI hook subscribes; once setActiveDataSource has been called
\* the only steps are the call's own, subscriptions and the ticks of the timers.
Idle == \A j \in 1..Len(src) : ~src[j].running

NextRun ==
    \/ \E id \in Ids : \E type \in TypesOf(id), config \in NoConfigs :
           /\ Sequential
           /\ Idle
           /\ \A t \in awaitingInit : t.id # id
           /\ addDataSource(id, type, config, MaxTasks)
    \/ \E id \in Ids : Sequential /\ Idle /\ setActiveDataSource(id, MaxTasks)
    \/ addDataSourceWire
    \/ ReturnTrue
    \/ \E t \in awaitingInit : InitializeDone(t)
    \/ Subscribe
    \/ \E i \in 1..Len(src) : Tick(i, RunTicks)

SpecRun == Init /\ [][NextRun]_vars

\* The life of the producers: registered, started, stopped and reconfigured through
\* the Coordinator by a caller that awaits each call, with timers that fire and
\* subscribers that may throw.
NextLife ==
    \/ \E id \in Ids : \E type \in TypesOf(id), config \in NoConfigs :
           Sequential /\ addDataSource(id, type, config, MaxTasks)
    \/ \E id \in Ids : Sequential /\ startDataSource(id, MaxTasks)
    \/ \E id \in Ids : Sequential /\ stopDataSource(id, MaxTasks)
    \/ \E id \in Ids, config \in NoConfigs :
           Sequential /\ updateDataSourceConfig(id, config, MaxTasks)
    \/ \E id \in Ids : Sequential /\ startDataSourceThrows(id, MaxTasks)
    \/ \E id \in Ids : Sequential /\ stopDataSourceThrows(id, MaxTasks)
    \/ addDataSourceWire
    \/ updateConfigurationMerge
    \/ ReturnTrue
    \/ CatchBlock
    \/ \E t \in awaitingInit : InitializeDone(t)
    \/ Subscribe
    \/ \E i \in 1..Len(src) : Tick(i, FaultTicks)
    \/ \E i \in 1..Len(src) : TickThrows(i, FaultTicks)

SpecLife == Init /\ [][NextLife]_vars

\* A caller that uses the NetworkDataSource interface by itself: it takes a producer
\* from createDataSource and calls initialize, start and stop on it, awaiting nothing.
\* initialize(type, config) is createDataSource(type).initialize(config) up to its
\* await.
initialize(type, config) ==
    /\ ready = <<>>
    /\ Len(src) < 1 + MaxUnits
    /\ src' = Append(src, InitializeBegin(NewSource(type), config))
    /\ awaitingInit' = awaitingInit \cup {Cont("initialize", "init", NoId, Len(src) + 1)}
    /\ ev' = Suspended("initialize", NoId, Len(src) + 1)
    /\ UNCHANGED <<coord, subs, ready, now, route, ui>>

\* the delay inside that initialize elapses: updateStatus("stopped"); return true
initializeReturns(t) ==
    /\ ready = <<>>
    /\ t \in awaitingInit
    /\ t.op = "initialize"
    /\ src' = [src EXCEPT ![t.inst] = InitializeEnd(@)]
    /\ awaitingInit' = awaitingInit \ {t}
    /\ ev' = Returned("initialize", NoId, t.inst, TRUE)
    /\ UNCHANGED <<coord, subs, ready, now, route, ui>>

\* the producers that caller holds: the ones it constructed
Held == {i \in 1..Len(src) : src[i].wired = NoId /\ ConstructorsAdd.inst # i}

\* start() of producer i, called on the object
start(i) ==
    /\ ready = <<>>
    /\ i \in Held
    /\ LET r == Start(src[i])
       IN  /\ src' = [src EXCEPT ![i] = r.p]
           /\ ev' = WithProducer(Returned("start", NoId, i, TRUE), "start",
                                 src[i].running, r.notes)
    /\ UNCHANGED <<coord, subs, awaitingInit, ready, now, route, ui>>

\* stop() of producer i, called on the object
stop(i) ==
    /\ ready = <<>>
    /\ i \in Held
    /\ LET r == Stop(src[i])
       IN  /\ src' = [src EXCEPT ![i] = r.p]
           /\ ev' = WithProducer(Returned("stop", NoId, i, TRUE), "stop",
                                 src[i].running, r.notes)
    /\ UNCHANGED <<coord, subs, awaitingInit, ready, now, route, ui>>

NextUnit ==
    \/ \E type \in {"simulated", "pcap"}, config \in NoConfigs : initialize(type, config)
    \/ \E t \in awaitingInit : initializeReturns(t)
    \/ \E i \in 1..Len(src) : start(i)
    \/ \E i \in 1..Len(src) : stop(i)
    \/ \E i \in 1..Len(src) : Tick(i, UnitTicks)

SpecUnit == Init /\ [][NextUnit]_vars

\* A mounted hook: the default source is made active and runs, a hook's effect runs
\* up to MaxMounts times, anomalies arrive and the 5-second timers fire.
NextHook ==
    \/ Sequential /\ setActiveDataSource("simulated", MaxTasks)
    \/ addDataSourceWire
    \/ setActiveDataSourceSet
    \/ ReturnTrue
    \/ \E t \in awaitingInit : InitializeDone(t)
    \/ \E kind \in {"useDataSource", "useWebSocket"} : Mount(kind, MaxMounts)
    \/ \E i \in 1..Len(src) : Tick(i, HookTicks)
    \/ TimeoutFires

SpecHook == Init /\ [][NextHook]_vars

\* Callers that do not await: addDataSource, removeDataSource and setActiveDataSource
\* are issued at any time, also between the suspension of an earlier call at an await
\* and its continuation.
NextOverlap ==
    \/ \E id \in Ids : \E type \in TypesOf(id), config \in NoConfigs :
           addDataSource(id, type, config, MaxTasks)
    \/ \E id \in Ids : removeDataSource(id, MaxTasks)
    \/ \E id \in Ids : setActiveDataSource(id, MaxTasks)
    \/ addDataSourceWire
    \/ removeDataSourceDelete
    \/ setActiveDataSourceSet
    \/ ReturnTrue
    \/ \E t \in awaitingInit : InitializeDone(t)

SpecOverlap == Init /\ [][NextOverlap]_vars

\* Switches that overlap: sources are registered one after the other, each under an
\* id no pending registration uses, and
\* setActiveDataSource is issued at any time, also while an earlier
\* setActiveDataSource is suspended in stop() or start().
NextSwitch ==
    \/ \E id \in Ids : \E type \in TypesOf(id), config \in NoConfigs :
           /\ Sequential
           /\ \A t \in awaitingInit : t.id # id
           /\ addDataSource(id, type, config, MaxTasks)
    \/ \E id \in Ids : setActiveDataSource(id, MaxTasks)
    \/ addDataSourceWire
    \/ setActiveDataSourceSet
    \/ ReturnTrue
    \/ \E t \in awaitingInit : InitializeDone(t)

SpecSwitch == Init /\ [][NextSwitch]_vars

\* Removals that overlap another call: sources are registered (each under an id no
\* pending registration uses) and switched by callers that await, while
\* removeDataSource and updateDataSourceConfig are issued at any time; timers fire.
NextRemoval ==
    \/ \E id \in Ids : \E type \in TypesOf(id), config \in NoConfigs :
           /\ Sequential
           /\ \A t \in awaitingInit : t.id # id
           /\ addDataSourceUpTo(id, type, config, MaxTasks, MaxReg)
    \/ \E id \in Ids : Sequential /\ setActiveDataSource(id, MaxTasks)
    \/ \E id \in Ids : removeDataSource(id, MaxTasks)
    \/ \E id \in Ids, config \in NoConfigs : updateDataSourceConfig(id, config, MaxTasks)
    \/ addDataSourceWire
    \/ setActiveDataSourceSet
    \/ removeDataSourceDelete
    \/ updateConfigurationMerge
    \/ ReturnTrue
    \/ \E t \in awaitingInit : InitializeDone(t)
    \/ Subscribe
    \/ \E i \in 1..Len(src) : Tick(i, MaxTicks)

SpecRemoval == Init /\ [][NextRemoval]_vars

\* Registrations whose initialize may fail: "b" is a capture source or a NetFlow
\* source, registered with no configuration or with { exporters: null }.
NextInit ==
    \/ \E id \in Ids : \E type \in TypesOf(id) \cup (IF id = "b" THEN {"netflow"} ELSE {}),
                           config \in {NoConfig, NoExporters} :
           ready = <<>> /\ addDataSourceUpTo(id, type, config, MaxTasks, MaxReg)
    \/ \E id \in Ids : ready = <<>> /\ setActiveDataSource(id, MaxTasks)
    \/ \E id \in Ids : ready = <<>> /\ startDataSource(id, MaxTasks)
    \/ \E id \in Ids : ready = <<>> /\ stopDataSource(id, MaxTasks)
    \/ addDataSourceWire
    \/ addDataSourceThrow
    \/ setActiveDataSourceSet
    \/ ReturnTrue
    \/ \E t \in awaitingInit : InitializeDone(t)
    \/ \E t \in awaitingInit : InitializeFails(t)
    \/ Subscribe
    \/ \E i \in 1..Len(src) : Tick(i, MaxTicks)

SpecInit == Init /\ [][NextInit]_vars

\* The two stores side by side: the default source is made active and its timer
\* fires, the hook subscribes, and clients POST samples to and GET from
\* /api/network-data, each request handled when no continuation is pending.
NextStores ==
    \/ Sequential /\ setActiveDataSource("simulated", MaxTasks)
    \/ addDataSourceWire
    \/ setActiveDataSourceSet
    \/ ReturnTrue
    \/ \E t \in awaitingInit : InitializeDone(t)
    \/ Subscribe
    \/ \E i \in 1..Len(src) : Tick(i, StoreTicks)
    \/ \E body \in Bodies :
           ready = <<>> /\ Len(networkDataHistory) < StorePosts /\ POST(body)
    \/ ready = <<>> /\ ev.type # "get" /\ GET

SpecStores == Init /\ [][NextStores]_vars

\* ------------------------------------------- the hook's calls and renders
\* no call of the Coordinator is suspended
Quiescent == ready = <<>> /\ awaitingInit = {}

\* the hook calls a Coordinator method: the call itself is the next step
Called(op, id) == [NoEv EXCEPT !.type = "hook", !.op = op, !.id = id]
Calling == ev.type = "hook"

\* the values of the effect's dependencies in the current render
CurrentState(h) == [isConnected |-> h.isConnected, activeSourceId |-> h.activeSourceId]

HookSteps == <<coord, subs, src, awaitingInit, ready, now, route, isNew>>

\* The subscription effect: at mount, and again after a render in which isConnected
\* or activeSourceId differs from the values the last effect closed over. The cleanup
\* of the last effect runs first: if (isConnected) disconnect(), with the isConnected
\* of its own render. Then the effect registers its four handlers, reloads both
\* lists and, in useWebSocket only, calls connect() if (!isConnected).
Effect(kind, most) ==
    /\ Quiescent
    /\ ~Calling
    /\ dataCallbacks < most
    /\ hook.pc = "idle"
    /\ ~hook.disconnecting
    /\ \/ hook.kind = "none"
       \/ hook.kind = kind /\ hook.effect # CurrentState(hook)
    /\ dataCallbacks' = dataCallbacks + 1
    /\ anomalyCallbacks' = anomalyCallbacks + 1
    /\ statusCallbacks' = statusCallbacks + 1
    /\ errorCallbacks' = errorCallbacks + 1
    /\ hook' = [hook EXCEPT !.kind = kind, !.anomalies = getAnomalyHistory,
                            !.trafficHistory = dataHistory,
                            !.effect = CurrentState(hook),
                            !.disconnecting = hook.kind # "none" /\ hook.effect.isConnected,
                            !.pc = IF kind = "useWebSocket" /\ ~hook.isConnected
                                   THEN "connect" ELSE @]
    /\ ev' = [NoEv EXCEPT !.type = "subscribe"]
    /\ UNCHANGED <<coord, src, awaitingInit, ready, now, route, isNew>>

\* the dashboard calls connect() of useDataSource (at mount, or the Reconnect button)
connect ==
    /\ Quiescent
    /\ ~Calling
    /\ hook.kind = "useDataSource"
    /\ hook.pc = "idle"
    /\ ~hook.disconnecting
    /\ ~hook.isConnected
    /\ hook.requested = NoId
    /\ hook.effect = CurrentState(hook)
    /\ hook' = [hook EXCEPT !.pc = "connect"]
    /\ ev' = [NoEv EXCEPT !.type = "state"]
    /\ UNCHANGED HookSteps

\* connect() without sourceId: await dataManager.setActiveDataSource(firstSource.id).
\* A disconnect() called by the cleanup of the same effect run goes first.
connectSets ==
    /\ Quiescent
    /\ ~Calling
    /\ hook.pc = "connect"
    /\ ~hook.disconnecting
    /\ Len(dataSources) > 0
    /\ hook' = [hook EXCEPT !.pc = "connect:set"]
    /\ ev' = Called("setActiveDataSource", dataSources[1].id)
    /\ UNCHANGED HookSteps

\* connect(): await dataManager.startDataSource(activeSources[0].id) if a registered
\* source is the active one, else setIsConnected(true)
connectStarts ==
    /\ Quiescent
    /\ ~Calling
    /\ hook.pc = "connect:set"
    /\ IF Has(activeSource)
       THEN /\ hook' = [hook EXCEPT !.pc = "connect:start", !.arg = activeSource]
            /\ ev' = Called("startDataSource", activeSource)
       ELSE /\ hook' = [hook EXCEPT !.pc = "idle", !.isConnected = TRUE]
            /\ ev' = [NoEv EXCEPT !.type = "state"]
    /\ UNCHANGED HookSteps

\* connect(): setActiveSourceId(activeSources[0].id); setIsConnected(true)
connectDone ==
    /\ Quiescent
    /\ ~Calling
    /\ hook.pc = "connect:start"
    /\ hook' = [hook EXCEPT !.pc = "idle", !.activeSourceId = hook.arg,
                            !.isConnected = TRUE]
    /\ ev' = [NoEv EXCEPT !.type = "state"]
    /\ UNCHANGED HookSteps

\* setActiveSource(sourceId) of useDataSource, switchDataSource(sourceId) of
\* useWebSocket, called for a registered id once the hook is connected and every
\* effect has run: await dataManager.setActiveDataSource(sourceId)
setActiveSource(sourceId) ==
    /\ Quiescent
    /\ ~Calling
    /\ hook.kind # "none"
    /\ hook.isConnected
    /\ hook.pc = "idle"
    /\ ~hook.disconnecting
    /\ hook.effect = CurrentState(hook)
    /\ Has(sourceId)
    /\ hook' = [hook EXCEPT !.pc = "switch", !.arg = sourceId, !.requested = sourceId]
    /\ ev' = Called("setActiveDataSource", sourceId)
    /\ UNCHANGED HookSteps

\* setActiveSource after its await: setActiveSourceId(sourceId)
setActiveSourceDone ==
    /\ Quiescent
    /\ ~Calling
    /\ hook.pc = "switch"
    /\ hook' = [hook EXCEPT !.pc = "idle", !.activeSourceId = hook.arg]
    /\ ev' = [NoEv EXCEPT !.type = "state"]
    /\ UNCHANGED HookSteps

\* the registered sources that are running, by their place in the registry
RunningSources == {k \in 1..Len(dataSources) : src[dataSources[k].inst].running}

\* disconnect(): for each registered source that is running, await
\* dataManager.stopDataSource(source.id); then setIsConnected(false)
disconnect ==
    /\ Quiescent
    /\ ~Calling
    /\ hook.disconnecting
    /\ IF RunningSources # {}
       THEN /\ ev' = Called("stopDataSource",
                             dataSources[CHOOSE k \in RunningSources :
                                            \A j \in RunningSources : k <= j].id)
            /\ UNCHANGED hook
       ELSE /\ hook' = [hook EXCEPT !.isConnected = FALSE, !.disconnecting = FALSE]
            /\ ev' = [NoEv EXCEPT !.type = "state"]
    /\ UNCHANGED HookSteps

\* The hook over the Coordinator: a second source is registered, the hook mounts and
\* connects, the user switches the source, and the effect runs whenever the hook's
\* state has changed. The hook acts when no call of the Coordinator is suspended.
NextRender ==
    \/ \E id \in Ids : \E type \in TypesOf(id), config \in NoConfigs :
           /\ ~Calling /\ Sequential /\ hook.pc = "idle" /\ ~hook.disconnecting
           /\ addDataSource(id, type, config, MaxTasks)
    \/ addDataSourceWire
    \/ setActiveDataSourceSet
    \/ ReturnTrue
    \/ \E t \in awaitingInit : InitializeDone(t)
    \/ \E kind \in {"useDataSource", "useWebSocket"} : Effect(kind, MaxRenders)
    \/ connect
    \/ connectSets
    \/ connectStarts
    \/ connectDone
    \/ \E id \in Ids : setActiveSource(id)
    \/ setActiveSourceDone
    \/ disconnect
    \/ Calling /\ ev.op = "setActiveDataSource" /\ setActiveDataSource(ev.id, MaxTasks)
    \/ Calling /\ ev.op = "startDataSource" /\ startDataSource(ev.id, MaxTasks)
    \/ Calling /\ ev.op = "stopDataSource" /\ stopDataSource(ev.id, MaxTasks)
    \/ \E i \in 1..Len(src) : ~Calling /\ Tick(i, RenderTicks)

SpecRender == Init /\ [][NextRender]_vars

\* ------------------------------------------------------------------ claims
\* C1: a data or anomaly event of a producer whose registry id is not activeSource when
\* it is emitted changes neither history and is delivered to no onData / onAnomaly
\* subscriber.
C1_NonActiveEventsDropped ==
    [][(ev'.type = "tick" /\ src[ev'.inst].wired # activeSource)
          => /\ dataHistory' = dataHistory
             /\ anomalyHistory' = anomalyHistory
             /\ ev'.dataTo = 0
             /\ ev'.anomalyTo = 0]_vars

\* a registered, running, non-active producer emitted a sample while another source
\* was active and a subscriber was listening
C1_Witness ==
    /\ ev.type = "tick"
    /\ ev.data
    /\ ev.id # NoId
    /\ ev.active # NoId
    /\ ev.id # ev.active
    /\ Has(ev.id)
    /\ dataCallbacks > 0
    /\ ev.dataTo = 0

\* C4: at most one entry of getDataSources() has active = true, and no two entries
\* have the same id.
C4_OneActiveUniqueIds ==
    LET l == getDataSources
    IN  /\ Cardinality({k \in 1..Len(l) : l[k].active}) <= 1
        /\ \A j, k \in 1..Len(l) : j # k => l[j].id # l[k].id

\* two sources are registered, one of them active, and an addDataSource for an id
\* already registered has just been refused
C4_Witness ==
    /\ Len(getDataSources) = 2
    /\ \E k \in 1..2 : getDataSources[k].active
    /\ ev.type = "ret"
    /\ ev.op = "addDataSource"
    /\ ~ev.res

\* C5: when setActiveDataSource(id), called with id registered, returns true then
\* activeSource = id and the producer registered under id is running; a different
\* producer that was the active one when the call was issued is not running.
C5_SetActivePostcondition ==
    (ev.type = "ret" /\ ev.op = "setActiveDataSource" /\ ev.res)
        => /\ activeSource = ev.id
           /\ Get(ev.id) # 0
           /\ src[Get(ev.id)].running
           /\ (ev.prev # 0 /\ ev.prev # Get(ev.id)) => ~src[ev.prev].running

\* a switch from a running producer to another one returned true
C5_Witness ==
    /\ ev.type = "ret"
    /\ ev.op = "setActiveDataSource"
    /\ ev.res
    /\ ev.was
    /\ ev.prev # 0
    /\ ev.prev # Get(ev.id)
    /\ activeSource = ev.id

\* C7: a producer that is not running has no timer armed, and every data or anomaly
\* event comes from a running producer: after stop() nothing is emitted until the next
\* start(), so a stopped producer adds nothing to the histories after a switch.
C7_StoppedProducerSilent ==
    /\ [](\A i \in 1..Len(src) : ~src[i].running => src[i].timers = 0)
    /\ [][(ev'.type = "tick" /\ ev'.data) => src[ev'.inst].running]_vars

\* a producer that had emitted samples was stopped by a switch to another source
C7_Witness ==
    /\ ev.type = "ret"
    /\ ev.op = "setActiveDataSource"
    /\ ev.was
    /\ ev.prev # Get(ev.id)
    /\ src[ev.prev].dataPointsProcessed > 0
    /\ ~src[ev.prev].running
    /\ src[ev.prev].timers = 0

\* C6: under the sequential caller of addDataSource, setActiveDataSource and
\* removeDataSource at most one registered producer is running.
C6_AtMostOneRunning ==
    Cardinality({i \in 1..Len(src) :
                    /\ \E k \in 1..Len(dataSources) : dataSources[k].inst = i
                    /\ src[i].running}) <= 1

\* two producers are registered and a switch has just stopped one and started the other
C6_Witness ==
    /\ Len(dataSources) = 2
    /\ ev.type = "ret"
    /\ ev.op = "setActiveDataSource"
    /\ ev.was
    /\ src[Get(ev.id)].running
    /\ \E k \in 1..2 : ~src[dataSources[k].inst].running

\* C2: the sample history never holds more than 3600 entries and the anomaly history
\* never more than 1000; each store's length follows from the number of its own
\* appends alone.
C2_HistoryBounds ==
    /\ Len(dataHistory) <= maxDataHistorySize
    /\ Len(anomalyHistory) <= maxAnomalyHistorySize
    /\ Len(dataHistory) = Min(src[1].dataPointsProcessed, maxDataHistorySize)
    /\ Len(anomalyHistory) = Min(src[1].anomaliesDetected, maxAnomalyHistorySize)

\* more than 1000 anomalies were appended and the anomaly store is at its capacity
\* while the sample store, below its own capacity, holds more entries than that
C2_Witness ==
    /\ src[1].anomaliesDetected > maxAnomalyHistorySize
    /\ Len(anomalyHistory) = maxAnomalyHistorySize
    /\ Len(dataHistory) > maxAnomalyHistorySize
    /\ Len(dataHistory) < maxDataHistorySize

\* timestamps grow along a history: the oldest entry comes first
InInsertionOrder(h) == \A k \in 1..(Len(h) - 1) : h[k][2] < h[k + 1][2]

\* C3: an append to a store that holds exactly its capacity gives the old sequence
\* without its first element followed by the new item, and a history is always in
\* insertion order, oldest first.
C3_FifoEviction ==
    /\ [](InInsertionOrder(dataHistory) /\ InInsertionOrder(anomalyHistory))
    /\ [][(ev'.type = "tick" /\ ev'.data /\ src[ev'.inst].wired = activeSource)
              => /\ Len(dataHistory) = maxDataHistorySize
                      => dataHistory' = Append(Tail(dataHistory), <<ev'.inst, now'>>)
                 /\ (ev'.anomaly /\ Len(anomalyHistory) = maxAnomalyHistorySize)
                      => anomalyHistory' = Append(Tail(anomalyHistory), <<ev'.inst, now'>>)]_vars

\* the anomaly store was full, took one more item and lost its oldest one
C3_Witness ==
    /\ ev.type = "tick"
    /\ ev.anomaly
    /\ src[1].anomaliesDetected = maxAnomalyHistorySize + 1
    /\ Len(anomalyHistory) = maxAnomalyHistorySize
    /\ anomalyHistory[1][2] = 2
    /\ anomalyHistory[maxAnomalyHistorySize][2] = now

\* C8: a producer never owns more than one timer; start() on a running producer
\* leaves it running with exactly one timer; stop() on a stopped producer leaves it
\* stopped, announces no status and raises no error.
C8_StartStopIdempotent ==
    /\ \A i \in 1..Len(src) : src[i].timers <= 1
    /\ (ev.pop = "start" /\ ev.was)
          => src[ev.inst].running /\ src[ev.inst].timers = 1
    /\ (ev.pop = "stop" /\ ~ev.was)
          => /\ ~src[ev.inst].running
             /\ src[ev.inst].timers = 0
             /\ src[ev.inst].status # "error"
             /\ src[ev.inst].errorCount = 0
             /\ ev.notes = <<>>

\* start() was called a second time while the first call had not returned yet
C8_Witness ==
    /\ ev.pop = "start"
    /\ ev.was
    /\ Len(ready) = 2
    /\ ready[1].op = "start"
    /\ ready[2].op = "start"
    /\ ready[1].inst = ready[2].inst
    /\ src[ev.inst].timers = 1

\* the metric an anomaly type stands for
MetricOf(type) == CHOOSE m \in {Metrics[k] : k \in 1..4} : AnomalyType(m) = type

\* the anomalies the last POST emitted
Emitted == LastN(detectedAnomalies, response.anomaliesDetected)

\* C9: while fewer than 10 samples have been fed no anomaly has been emitted, and every
\* anomaly of a POST was computed with at least 10 samples in the history and a
\* standard deviation of at least 0.1 (1.6 sixteenths) for its metric.
C9_ColdStartAndDeviationGuard ==
    /\ Len(networkDataHistory) < MinSamples => detectedAnomalies = <<>>
    /\ \A k \in 1..Len(Emitted) :
           LET values == Values(LastN(networkDataHistory, WindowSize), MetricOf(Emitted[k].type))
           IN  /\ Len(networkDataHistory) >= MinSamples
               /\ 25 * NNVariance(values) >= 64 * Len(values) * Len(values)

\* the eleventh sample raised packetsPerSecond by 5.0 and bandwidth by 0.0625 over ten
\* quiet ones: one anomaly, for packetsPerSecond
C9_Witness ==
    /\ Len(networkDataHistory) = 11
    /\ networkDataHistory[11].bandwidth # networkDataHistory[10].bandwidth
    /\ Odd(networkDataHistory) = 1
    /\ response.anomaliesDetected = 1
    /\ Emitted[1].type = "traffic_spike"

\* C10: a sample is scored against the last 30 samples that precede it and is not part
\* of its own window: the anomalies of a POST are those the detector finds with the
\* history as it was before the sample was pushed.
C10_WindowPrecedesSample ==
    response.status = 200
        => Emitted = detectAnomalies(SubSeq(networkDataHistory, 1, Len(networkDataHistory) - 1),
                                     networkDataHistory[Len(networkDataHistory)])

\* ten quiet samples and then one that raises activeConnections and errorRate: the
\* POST reported two anomalies although the ten samples before it do not vary
C10_Witness ==
    /\ Len(networkDataHistory) = 11
    /\ \A k \in 1..10 : networkDataHistory[k] = Quiet(k)
    /\ networkDataHistory[11] = Storm(11)
    /\ response = [status |-> 200, anomaliesDetected |-> 2]

\* C11: after 30 samples whose packetsPerSecond stays within 1% of its centre, the
\* other metrics being constant, one sample with four times the centre makes the
\* detector emit exactly one anomaly, of type traffic_spike and severity critical.
C11_BurstIsCritical ==
    (/\ Len(networkDataHistory) = WindowSize + 1
     /\ networkDataHistory[WindowSize + 1] = Burst(WindowSize + 1)
     /\ response.status = 200)
        => /\ Len(Emitted) = 1
           /\ Emitted[1].type = "traffic_spike"
           /\ Emitted[1].severity = "critical"

\* the burst after 30 steady samples, some of them off the centre, was answered with
\* one traffic_spike anomaly of severity warning
C11_Witness ==
    /\ Len(networkDataHistory) = WindowSize + 1
    /\ networkDataHistory[WindowSize + 1] = Burst(WindowSize + 1)
    /\ Drift(networkDataHistory) > 0
    /\ response = [status |-> 200, anomaliesDetected |-> 1]
    /\ Emitted[1].type = "traffic_spike"
    /\ Emitted[1].severity = "warning"

\* values of packetsPerSecond a client may send next, in sixteenths
Probes == {-64, 0, 16, 48, 72, 96, 112, 700}

Probe(t, x) == [Quiet(t) EXCEPT !.packetsPerSecond = x]

Severities == {"info", "warning", "critical"}

\* detectAnomalies gives an anomaly of severity s for some request that follows the
\* first n - 1 samples of h, n being at least 10
Produced(h, s) ==
    \E n \in MinSamples..(Len(h) + 1), x \in Probes :
        LET a == detectAnomalies(Append(SubSeq(h, 1, n - 1), Probe(n, x)), Probe(n, x))
        IN  \E k \in 1..Len(a) : a[k].severity = s

\* every anomaly of the last POST has z > 3 for its metric, and its severity is
\* critical iff z > 6, warning iff 4.5 < z <= 6, info iff z <= 4.5
ClassifiedByZ ==
    \A k \in 1..Len(Emitted) :
        LET values == Values(LastN(networkDataHistory, WindowSize), MetricOf(Emitted[k].type))
            x == Emitted[k].actualValue
            above6 == ZScoreAbove(values, x, 6, 1)
            above45 == ZScoreAbove(values, x, 9, 2)
        IN  /\ ZScoreAbove(values, x, 3, 1)
            /\ Emitted[k].severity = "critical" <=> above6
            /\ Emitted[k].severity = "warning" <=> (above45 /\ ~above6)
            /\ Emitted[k].severity = "info" <=> ~above45

\* C12: a metric is flagged only when z > 3; a flagged metric is critical iff z > 6,
\* warning iff 4.5 < z <= 6 and info iff 3 < z <= 4.5; and each of the three severities
\* is produced for some input sequence (here: once 30 samples are fed, for some prefix
\* of them followed by some next sample).
C12_EachSeverityProduced ==
    /\ ClassifiedByZ
    /\ Len(networkDataHistory) >= WindowSize
          => \A s \in Severities : Produced(networkDataHistory, s)

\* 30 samples are fed: some continuation of a prefix is classified info, another one
\* warning, none critical, and the last POST's anomalies are classified by their z
C12_Witness ==
    /\ Len(networkDataHistory) >= WindowSize
    /\ ClassifiedByZ
    /\ Produced(networkDataHistory, "info")
    /\ Produced(networkDataHistory, "warning")
    /\ ~Produced(networkDataHistory, "critical")

\* the last POST emitted an anomaly for the metric
Flagged(metric) == \E k \in 1..Len(Emitted) : Emitted[k].type = AnomalyType(metric)

\* for the sample of the last POST: a metric whose window has a standard deviation
\* below 0.1 has no anomaly, and every other metric has one iff its z exceeds 3
SkippedAndOthersScored ==
    \A j \in 1..4 :
        LET values == Values(LastN(networkDataHistory, WindowSize), Metrics[j])
            x == networkDataHistory[Len(networkDataHistory)][Metrics[j]]
            small == 25 * NNVariance(values) < 64 * Len(values) * Len(values)
        IN  /\ small => ~Flagged(Metrics[j])
            /\ (~small /\ Len(networkDataHistory) >= MinSamples)
                  => (Flagged(Metrics[j]) <=> ZScoreAbove(values, x, ZSCORE_THRESHOLD, 1))

\* C13: a metric whose window standard deviation is below 0.1 is skipped: the POST of
\* a valid sample emits no anomaly for it, answers without an error, and still
\* evaluates the other metrics of the sample.
C13_SmallDeviationSkipped ==
    (ev.type = "post" /\ ev.res) => (response.status = 200 /\ SkippedAndOthersScored)

\* a sample whose packetsPerSecond and bandwidth windows do not vary was answered with
\* status 200 and two anomalies, for activeConnections and errorRate
C13_Witness ==
    /\ ev.type = "post"
    /\ ev.res
    /\ Len(networkDataHistory) >= MinSamples
    /\ networkDataHistory[Len(networkDataHistory)] = Storm(Len(networkDataHistory))
    /\ NNVariance(Values(LastN(networkDataHistory, WindowSize), "packetsPerSecond")) = 0
    /\ response = [status |-> 200, anomaliesDetected |-> 2]
    /\ ~Flagged("packetsPerSecond")
    /\ Flagged("activeConnections")
    /\ Flagged("errorRate")

\* the order of the verdicts: not flagged < info < warning < critical
Rank(severity) ==
    CASE severity = "info" -> 1
      [] severity = "warning" -> 2
      [] severity = "critical" -> 3

\* the detector's verdict on the value x of a metric, mean and standard deviation
\* being those of the window w
Verdict(w, metric, x) ==
    LET a == ScoreMetric(w, metric, [Quiet(0) EXCEPT ![metric] = x])
    IN  IF a = <<>> THEN 0 ELSE Rank(a[1].severity)

\* Len(values) * |x - mean|
AbsDeviation(values, x) ==
    LET d == Len(values) * x - SumSeq(values)
    IN  IF d < 0 THEN -d ELSE d

\* for the value x of a metric against the window w: its deviation, the verdict and
\* the thresholds 3, 4.5 and 6 its z exceeds
Scored(w, metric, x) ==
    [deviation |-> AbsDeviation(Values(w, metric), x),
     verdict |-> Verdict(w, metric, x),
     exceeded |-> {q \in {2, 3, 4} : ZScoreAbove(Values(w, metric), x, 3 * q, 2)}]

\* the probes scored against the window of the last 30 samples
ScoredProbes(metric) ==
    {<<x, Scored(LastN(networkDataHistory, WindowSize), metric, x)>> : x \in Probes}

\* C14: for the mean and standard deviation of a window, if |x2 - mean| >= |x1 - mean|
\* then z(x2) exceeds every threshold z(x1) exceeds and the verdict on x2 is not weaker
\* than the verdict on x1 (not flagged <= info <= warning <= critical).
C14_VerdictMonotone ==
    \A j \in 1..4 :
        \A p1, p2 \in ScoredProbes(Metrics[j]) :
            p2[2].deviation >= p1[2].deviation
                => /\ p2[2].verdict >= p1[2].verdict
                   /\ p1[2].exceeded \subseteq p2[2].exceeded

\* against one window, values of packetsPerSecond of growing deviation are not
\* flagged, info, warning and critical
C14_Witness ==
    /\ Len(networkDataHistory) >= MinSamples
    /\ \E p0, p1, p2, p3 \in ScoredProbes("packetsPerSecond") :
           /\ p0[2].deviation < p1[2].deviation
           /\ p1[2].deviation < p2[2].deviation
           /\ p2[2].deviation < p3[2].deviation
           /\ p0[2].verdict = 0
           /\ p1[2].verdict = 1
           /\ p2[2].verdict = 2
           /\ p3[2].verdict = 3

\* C15: addDataSource called with an id that is already registered returns false; it
\* constructs and initializes no producer and leaves the registry, activeSource and
\* both histories unchanged.
C15_DuplicateAddRefused ==
    [][(/\ ev'.op = "addDataSource"
        /\ ev'.type = "await" \/ ~ev'.res
        /\ Has(ev'.id))
          => /\ ev'.type = "ret"
             /\ ~ev'.res
             /\ src' = src
             /\ awaitingInit' = awaitingInit
             /\ ready' = ready
             /\ dataSources' = dataSources
             /\ activeSource' = activeSource
             /\ dataHistory' = dataHistory
             /\ anomalyHistory' = anomalyHistory]_vars

\* an addDataSource for the id of the active source, which had fed the history, was
\* refused
C15_Witness ==
    /\ ev.type = "ret"
    /\ ev.op = "addDataSource"
    /\ ~ev.res
    /\ Has(ev.id)
    /\ activeSource = ev.id
    /\ dataHistory # <<>>
    /\ awaitingInit = {}

\* producer j is or was registered
EverRegistered(j) == src[j].kind = "collected" \/ src[j].wired # NoId

\* C16 (as the code has it): a successful addDataSource inserts the source; it makes it
\* the active one exactly when the registry then holds this one source, otherwise
\* activeSource stays as it was; it starts no producer.
C16_ActiveWhenOnlySource ==
    [][(ev'.type = "ret" /\ ev'.op = "addDataSource" /\ ev'.res)
          => /\ \E k \in 1..Len(dataSources') :
                    dataSources'[k] = [id |-> ev'.id, inst |-> ev'.inst]
             /\ activeSource' = IF Len(dataSources') = 1 THEN ev'.id ELSE activeSource
             /\ ~src'[ev'.inst].running
             /\ src'[ev'.inst].timers = 0
             /\ \A i \in 1..Len(src) : src'[i].running => src[i].running]_vars

\* C16 (as stated): a successful addDataSource makes the source active only if it is
\* the very first source ever registered.
C16_ActiveOnlyIfFirstEver ==
    [][(/\ ev'.type = "ret" /\ ev'.op = "addDataSource" /\ ev'.res
        /\ activeSource # ev'.id
        /\ activeSource' = ev'.id)
          => \A j \in 1..Len(src) : ~EverRegistered(j)]_vars

\* a source added after the only registered source had been removed is the active one
\* and is not running
C16_Witness ==
    /\ ev.type = "ret"
    /\ ev.op = "addDataSource"
    /\ ev.res
    /\ activeSource = ev.id
    /\ Len(dataSources) = 1
    /\ \E j \in 1..Len(src) : j # ev.inst /\ src[j].kind = "collected"
    /\ ~src[ev.inst].running

\* C17: removeDataSource(id) of a registered source stops its producer first if it is
\* running, then removes it and keeps the order of the others; if it was the active
\* source, activeSource becomes the first remaining source in insertion order, or null
\* when none remains; otherwise activeSource is unchanged; no producer is started.
C17_RemoveStopsAndPromotesFirst ==
    [][(ev'.op = "removeDataSource" /\ Has(ev'.id))
          => /\ ev'.type = "await"
                   => /\ src[Get(ev'.id)].running
                      /\ ~src'[Get(ev'.id)].running
                      /\ src'[Get(ev'.id)].timers = 0
                      /\ dataSources' = dataSources
                      /\ activeSource' = activeSource
             /\ ev'.type = "ret"
                   => /\ ev'.res
                      /\ ~src[Get(ev'.id)].running
                      /\ dataSources' = SelectSeq(dataSources, LAMBDA e : e.id # ev'.id)
                      /\ activeSource' =
                             IF activeSource # ev'.id THEN activeSource
                             ELSE IF Len(dataSources') > 0 THEN dataSources'[1].id
                             ELSE NoId
             /\ \A j \in 1..Len(src) : src'[j].running => src[j].running]_vars

\* the active source, which was running, was removed while two others were
\* registered: the one inserted first is active now and is not running
C17_Witness ==
    /\ ev.type = "ret"
    /\ ev.op = "removeDataSource"
    /\ ev.res
    /\ ev.was
    /\ ev.active = ev.id
    /\ Len(getDataSources) = 2
    /\ getDataSources[1].active
    /\ ~src[getDataSources[1].source].running
    /\ ~src[getDataSources[2].source].running

\* C18: removeDataSource(id) with an id that is not registered returns false and has no
\* effect: the registry, activeSource, both histories, every producer and the pending
\* calls are unchanged, no status is announced and no error subscriber is called.
C18_RemoveUnknownSilent ==
    [][(ev'.op = "removeDataSource" /\ ~ev'.was /\ ~Has(ev'.id))
          => /\ ev'.type = "ret"
             /\ ~ev'.res
             /\ ev'.errs = 0
             /\ ev'.notes = <<>>
             /\ UNCHANGED <<coord, subs, src, awaitingInit, ready>>]_vars

\* a removal of an unregistered id returned false while an error subscriber was
\* registered, the active producer was running and had fed the history
C18_Witness ==
    /\ ev.type = "ret"
    /\ ev.op = "removeDataSource"
    /\ ~ev.res
    /\ ~Has(ev.id)
    /\ ev.errs = 0
    /\ errorCallbacks > 0
    /\ dataHistory # <<>>
    /\ activeSource # NoId
    /\ src[Get(activeSource)].running

\* the four methods that report an unknown id through the catch block
ThrowOnUnknown ==
    {"setActiveDataSource", "startDataSource", "stopDataSource", "updateDataSourceConfig"}

\* C19: setActiveDataSource, startDataSource, stopDataSource and updateDataSourceConfig
\* called with an unregistered id return false, call each error subscriber once with
\* that id, and change nothing: activeSource, the registry, the histories and every
\* producer (the active one included) are as before.
C19_UnknownIdFailsWithError ==
    [][(ready = <<>> /\ ev'.op \in ThrowOnUnknown /\ ~Has(ev'.id))
          => /\ ev'.type = "ret"
             /\ ~ev'.res
             /\ ev'.errs = errorCallbacks
             /\ ev'.inst = 0
             /\ ev'.notes = <<>>
             /\ UNCHANGED <<coord, subs, src, awaitingInit, ready>>]_vars

\* setActiveDataSource of an unregistered id failed and told the error subscriber,
\* while the active producer runs
C19_Witness ==
    /\ ev.type = "ret"
    /\ ev.op = "setActiveDataSource"
    /\ ~ev.res
    /\ ~Has(ev.id)
    /\ ev.errs = errorCallbacks
    /\ errorCallbacks > 0
    /\ activeSource # NoId
    /\ src[Get(activeSource)].running

\* the fields of a producer that start() and stop() write
Lifecycle(p, q) ==
    [p EXCEPT !.running = q.running, !.status = q.status,
              !.interval = q.interval, !.timers = q.timers, !.period = q.period]

\* C20: a step of startDataSource(id) or stopDataSource(id) changes nothing but the
\* running state of the producer registered under id: the registry, activeSource, both
\* histories and every other producer are unchanged; after a true return of start the
\* producer runs, after one of stop it does not; and a producer that is not the active
\* one adds nothing to the histories when it emits.
C20_StartStopOnlyRunningState ==
    [][/\ ev'.op \in {"startDataSource", "stopDataSource"}
            => /\ UNCHANGED <<coord, subs, awaitingInit>>
               /\ Len(src') = Len(src)
               /\ \A j \in 1..Len(src) :
                      IF j = Get(ev'.id)
                      THEN src'[j] = Lifecycle(src[j], src'[j])
                      ELSE src'[j] = src[j]
               /\ (ev'.type = "ret" /\ ev'.res)
                      => src'[ev'.inst].running = (ev'.op = "startDataSource")
       /\ (ev'.type = "tick" /\ src[ev'.inst].wired # activeSource)
            => UNCHANGED <<dataHistory, anomalyHistory>>]_vars

\* with no call that switches the active source: a producer that is not the active one
\* runs and has emitted a sample, and the history holds the active producer's samples
\* only
C20_Witness ==
    /\ ev.type = "tick"
    /\ ev.data
    /\ Has(ev.id)
    /\ activeSource # NoId
    /\ ev.id # activeSource
    /\ src[ev.inst].running
    /\ src[ev.inst].dataPointsProcessed > 0
    /\ dataHistory # <<>>
    /\ \A k \in 1..Len(dataHistory) : dataHistory[k][1] = Get(activeSource)

\* the configuration of a producer
ConfigOf(p) == [anomalyProbability |-> p.cfg, updateInterval |-> p.updateInterval]

\* the shallow merge of partial over previous: a key of partial wins, every other key
\* keeps its value
ShallowMerge(previous, partial) ==
    [k \in DOMAIN previous |-> IF partial[k] # Absent THEN partial[k] ELSE previous[k]]

\* C21: updateConfiguration(partial) leaves isRunning() as it was before the call. On a
\* running producer it stops it (no timer), merges, and restarts it with exactly one
\* timer whose period is the merged interval; on a stopped producer it merges and
\* arms no timer. In both cases the configuration is {...previous, ...partial}, and it
\* is the same at the return.
C21_UpdatePreservesRunning ==
    [][(ev'.op = "updateDataSourceConfig" /\ Has(ev'.id))
          => LET i == ev'.inst
                 c == ready'[Len(ready')]
             IN  /\ (ev'.type = "await" /\ ready = <<>> /\ src[i].running)
                       => /\ c.was
                          /\ ~src'[i].running
                          /\ src'[i].timers = 0
                          /\ ConfigOf(src'[i]) = ConfigOf(src[i])
                 /\ (ev'.type = "await" /\ ready = <<>> /\ ~src[i].running)
                       => /\ ~c.was
                          /\ ~src'[i].running
                          /\ src'[i].timers = 0
                          /\ ConfigOf(src'[i]) = ShallowMerge(ConfigOf(src[i]), c.config)
                 /\ (ev'.type = "await" /\ ready # <<>>)
                       => /\ Head(ready).was
                          /\ ~src[i].running
                          /\ src'[i].running
                          /\ src'[i].timers = 1
                          /\ ConfigOf(src'[i]) =
                                 ShallowMerge(ConfigOf(src[i]), Head(ready).config)
                          /\ src'[i].period = src'[i].updateInterval
                 /\ ev'.type = "ret"
                       => /\ ev'.res
                          /\ src' = src
                          /\ src[i].running = Head(ready).was
                          /\ src[i].timers = IF Head(ready).was THEN 1 ELSE 0]_vars

\* updateConfiguration({updateInterval: 2000}) returned on a running producer whose
\* anomalyProbability had been set to 1 before: it runs with one timer of period 2000
\* and has kept the anomalyProbability
C21_Witness ==
    /\ ev.type = "ret"
    /\ ev.op = "updateDataSourceConfig"
    /\ ev.res
    /\ ev.was
    /\ src[ev.inst].running
    /\ src[ev.inst].timers = 1
    /\ src[ev.inst].period = 2000
    /\ ConfigOf(src[ev.inst]) = [anomalyProbability |-> 100, updateInterval |-> 2000]

\* C22: for every producer variant, a failure inside a periodic tick (a subscriber
\* callback that throws) increments errorCount by one, sets the producer's status to
\* error, announces that status and invokes every registered error callback.
C22_TickFailureSetsError ==
    [][ev'.fault
          => /\ src'[ev'.inst].errorCount = src[ev'.inst].errorCount + 1
             /\ src'[ev'.inst].status = "error"
             /\ ev'.notes = <<"error">>
             /\ ev'.errs = errorCallbacks]_vars

\* an onData subscriber threw in a tick of the simulated source: the failure is counted
\* and the error subscriber is told, and the status is still running
C22_Witness ==
    /\ ev.type = "tick"
    /\ ev.fault
    /\ src[ev.inst].kind = "simulated"
    /\ src[ev.inst].errorCount = 1
    /\ ev.errs = errorCallbacks
    /\ errorCallbacks > 0
    /\ src[ev.inst].status = "running"
    /\ ev.notes = <<>>

\* C23: when a producer fails during start or stop invoked through the Coordinator, the
\* Coordinator operation returns false and has told every error subscriber with the
\* source id; the registry and every other producer are unaffected.
C23_ProducerFailureReturnsFalse ==
    [][/\ (ev'.fault /\ ev'.type = "ret") => ~ev'.res
       /\ ev'.fault
            => /\ dataSources' = dataSources
               /\ activeSource' = activeSource
               /\ \A j \in 1..Len(src) : j # ev'.inst => src'[j] = src[j]]_vars

\* startDataSource returned true for a capture source whose start() failed: the
\* producer caught the failure itself, is not running and has status error
C23_Witness ==
    /\ ev.type = "ret"
    /\ ev.op = "startDataSource"
    /\ ev.fault
    /\ ev.res
    /\ src[ev.inst].kind = "pcap"
    /\ ~src[ev.inst].running
    /\ src[ev.inst].timers = 0
    /\ src[ev.inst].status = "error"
    /\ src[ev.inst].errorCount = 1
    /\ errorCallbacks > 0

\* the id a producer is registered under (NoId: it is not in the registry)
RegisteredAs(i) ==
    IF \E k \in 1..Len(dataSources) : dataSources[k].inst = i
    THEN dataSources[CHOOSE k \in 1..Len(dataSources) : dataSources[k].inst = i].id
    ELSE NoId

\* C24: every status a registered producer announces, active or not, is handed to
\* every onStatus subscriber registered at that time (as long as none of them throws),
\* and every error it emits to every onError subscriber, each with the id the producer
\* is registered under; the subscriber lists are unchanged, the histories change only
\* by the sample of a tick, and activeSource only if the call that made the producer
\* announce a status is setActiveDataSource.
C24_StatusAndErrorRedispatched ==
    [][(ev'.inst # 0 /\ ev'.inst <= Len(src) /\ RegisteredAs(ev'.inst) # NoId)
          => /\ (ev'.notes # <<>> /\ ~ev'.fault)
                   => /\ ev'.statusTo = Len(ev'.notes) * statusCallbacks
                      /\ ev'.tag = RegisteredAs(ev'.inst)
             /\ (ev'.fault /\ (ev'.type = "tick"
                                \/ (ev'.type = "await" /\ src[ev'.inst].kind # "simulated")))
                   => /\ ev'.errs = errorCallbacks
                      /\ ev'.tag = RegisteredAs(ev'.inst)
             /\ (ev'.notes # <<>> \/ ev'.fault)
                   => /\ UNCHANGED subs
                      /\ ev'.type # "tick" => UNCHANGED <<dataHistory, anomalyHistory>>
                      /\ ev'.op # "setActiveDataSource" => activeSource' = activeSource]_vars

\* a producer that is not the active source failed in start(): its statuses and its
\* error reached the subscribers, tagged with its id
C24_Witness ==
    /\ ev.fault
    /\ ev.type = "await"
    /\ ev.op = "startDataSource"
    /\ activeSource # NoId
    /\ ev.id # activeSource
    /\ ev.tag = ev.id
    /\ RegisteredAs(ev.inst) = ev.id
    /\ ev.notes = <<"initializing", "error">>
    /\ errorCallbacks > 0
    /\ ev.errs = errorCallbacks

\* C25: once setActiveDataSource on a registered source has been called and nothing
\* else is done, the source is the active one and, when the call has returned, reports
\* status running; after n ticks the history holds the n samples of that source in
\* emission order; each tick appends exactly its one sample and calls each onData
\* subscriber once.
C25_ActiveSourceFeedsHistory ==
    /\ [](\A i \in 1..Len(src) :
             src[i].running
                => /\ src[i].wired = activeSource
                   /\ Get(activeSource) = i
                   /\ ready = <<>> => src[i].status = "running"
                   /\ src[i].timers = 1
                   /\ Len(dataHistory) = src[i].dataPointsProcessed
                   /\ Len(dataHistory) = now
                   /\ \A k \in 1..Len(dataHistory) : dataHistory[k] = <<i, k>>)
    /\ [][ev'.type = "tick"
              => /\ ev'.data
                 /\ dataHistory' = Append(dataHistory, <<ev'.inst, now'>>)
                 /\ ev'.dataTo = dataCallbacks]_vars
    /\ [][(ev'.type = "ret" /\ ev'.op = "setActiveDataSource" /\ ev'.res)
              => /\ activeSource' = ev'.id
                 /\ src'[Get(ev'.id)].running
                 /\ src'[Get(ev'.id)].status = "running"]_vars

\* ten ticks after setActiveDataSource("b"): the history holds ten samples of that
\* source, the last tick told the subscriber, and the source reports running
C25_Witness ==
    /\ ev.type = "tick"
    /\ ev.id = "b"
    /\ activeSource = "b"
    /\ now = 10
    /\ Len(dataHistory) = 10
    /\ \A k \in 1..10 : dataHistory[k] = <<ev.inst, k>>
    /\ dataCallbacks > 0
    /\ ev.dataTo = dataCallbacks
    /\ src[ev.inst].status = "running"

\* C26: the counters of a producer the program still holds never decrease, whatever
\* is done to it; dataPointsProcessed grows by one exactly in the steps in which the
\* producer emits a sample, anomaliesDetected by one exactly with an anomaly, and a
\* start, a stop and an updateConfiguration leave both alone.
C26_CountersMonotone ==
    [][\A j \in 1..Len(src) :
          src'[j].kind # "collected"
             => /\ src'[j].dataPointsProcessed =
                       src[j].dataPointsProcessed
                          + (IF ev'.type = "tick" /\ ev'.inst = j /\ ev'.data THEN 1 ELSE 0)
                /\ src'[j].anomaliesDetected =
                       src[j].anomaliesDetected
                          + (IF ev'.type = "tick" /\ ev'.inst = j /\ ev'.anomaly THEN 1 ELSE 0)
                /\ src'[j].errorCount >= src[j].errorCount
                /\ src'[j].errorCount <= src[j].errorCount + 1
                /\ src'[j].errorCount # src[j].errorCount => (ev'.fault /\ ev'.inst = j)]_vars

\* a producer that had emitted a sample and counted a failure was stopped and is
\* started again: the counters are what they were
C26_Witness ==
    /\ ev.type = "await"
    /\ ev.op = "startDataSource"
    /\ ev.pop = "start"
    /\ ~ev.was
    /\ ~ev.fault
    /\ src[ev.inst].running
    /\ src[ev.inst].dataPointsProcessed = 1
    /\ src[ev.inst].errorCount = 1

\* C27: a POST whose body fails schema validation is answered with 400 and leaves the
\* sample window and the anomaly list as they were; a POST with a valid body is
\* answered with 200, appends exactly that sample (the schema's keys of the body) to
\* the window, and returns the number of anomalies stored for that sample.
C27_InvalidBodyChangesNothing ==
    [][ev'.type = "post"
          => IF ~NetworkDataSchemaParses(ev'.body)
             THEN /\ response'.status = 400
                  /\ UNCHANGED <<networkDataHistory, detectedAnomalies>>
             ELSE /\ response'.status = 200
                  /\ networkDataHistory' =
                         Append(networkDataHistory, [f \in Fields |-> ev'.body[f]])
                  /\ Len(detectedAnomalies') =
                         Len(detectedAnomalies) + response'.anomaliesDetected
                  /\ \A k \in 1..Len(detectedAnomalies') :
                         IF k <= Len(detectedAnomalies)
                         THEN detectedAnomalies'[k] = detectedAnomalies[k]
                         ELSE detectedAnomalies'[k].timestamp = ev'.body.timestamp]_vars

\* a body with every key and a metric that is not a number was refused after eleven
\* samples and two anomalies had been stored: both stores are as they were
C27_Witness ==
    /\ ev.type = "post"
    /\ Fields \subseteq DOMAIN ev.body
    /\ ev.body.errorRate = JsonNull
    /\ response.status = 400
    /\ Len(networkDataHistory) = 11
    /\ networkDataHistory[11] = Storm(11)
    /\ Len(detectedAnomalies) = 2

\* C28: a producer whose initialize() has not returned yet has no timer, is not
\* running, does not report the status running and has emitted no sample, whatever
\* was called on it.
C28_StartBeforeInitializeRefused ==
    \A t \in awaitingInit :
        /\ ~src[t.inst].running
        /\ src[t.inst].timers = 0
        /\ src[t.inst].status # "running"
        /\ src[t.inst].dataPointsProcessed = 0

\* start() was called on a producer still inside initialize: it runs, reports
\* running, and its timer has fired and emitted a sample
C28_Witness ==
    /\ ev.type = "tick"
    /\ ev.data
    /\ \E t \in awaitingInit :
           /\ t.op = "initialize"
           /\ t.inst = ev.inst
           /\ src[t.inst].running
           /\ src[t.inst].timers = 1
           /\ src[t.inst].status = "running"
           /\ src[t.inst].dataPointsProcessed = 1

\* an entry of the hook's list with this anomaly's id is shown with isNew = true
ShownAsNew(h, marks, id) ==
    \E k \in 1..Len(h.anomalies) : h.anomalies[k].id = id /\ FlagOf(h.anomalies[k], marks)

\* C29: an anomaly that arrives in the mounted hook is shown with isNew = true; an
\* anomaly shown with isNew = true keeps it in every step but the firing of a 5-second
\* timer; an anomaly shown with isNew = true has a 5-second timer pending (none is
\* shown as new after its timer fired); and no anomaly object in the Coordinator's
\* anomalyHistory carries isNew = true.
C29_IsNewIsPresentationOnly ==
    /\ [](\A k \in 1..Len(hook.anomalies) :
             FlagOf(hook.anomalies[k], isNew)
                 => \E n \in 1..Len(hook.timeouts) :
                        hook.timeouts[n].id = hook.anomalies[k].id)
    /\ [](\A k \in 1..Len(anomalyHistory) : anomalyHistory[k] \notin isNew)
    /\ [][(ev'.type = "tick" /\ ev'.anomalyTo > 0 /\ hook.kind # "none")
             => /\ Len(hook'.anomalies) = Len(hook.anomalies) + ev'.anomalyTo
                /\ \A k \in 1..ev'.anomalyTo :
                       /\ hook'.anomalies[k].id = <<ev'.inst, now'>>
                       /\ FlagOf(hook'.anomalies[k], isNew')]_vars
    /\ [][ev'.type # "timeout"
             => \A k \in 1..Len(hook'.anomalies) :
                    ShownAsNew(hook, isNew, hook'.anomalies[k].id)
                        => FlagOf(hook'.anomalies[k], isNew')]_vars

\* useWebSocket is mounted; the timer of an anomaly has fired and the hook shows its
\* copy with isNew = false, while the object in anomalyHistory carries isNew = true
C29_Witness ==
    /\ hook.kind = "useWebSocket"
    /\ ev.type = "timeout"
    /\ hook.timeouts = <<>>
    /\ Len(anomalyHistory) = 1
    /\ anomalyHistory[1] \in isNew
    /\ hook.anomalies = <<[id |-> anomalyHistory[1], isNew |-> FALSE, own |-> TRUE]>>

\* C30: in every reachable state activeSource is null or the id of a registered
\* source.
C30_ActiveSourceRegistered == activeSource = NoId \/ Has(activeSource)

\* setActiveDataSource("b") returned true after removeDataSource("b") had run while
\* it awaited the stop of the previous active producer: activeSource is "b" and the
\* registry does not hold "b"
C30_Witness ==
    /\ ev.type = "ret"
    /\ ev.op = "setActiveDataSource"
    /\ ev.id = "b"
    /\ ev.res
    /\ activeSource = "b"
    /\ ~Has("b")
    /\ Has("simulated")

\* C31: when a setActiveDataSource has returned true and no call is suspended any
\* more, a registered producer runs exactly if its id is activeSource.
C31_OverlappingSwitchesLeaveOneRunning ==
    (ready = <<>> /\ ev.type = "ret" /\ ev.op = "setActiveDataSource" /\ ev.res)
        => \A k \in 1..Len(dataSources) :
               src[dataSources[k].inst].running <=> dataSources[k].id = activeSource

\* setActiveDataSource("b") and setActiveDataSource("simulated") overlapped and both
\* have returned: "b" is active, and both registered producers run
C31_Witness ==
    /\ ready = <<>>
    /\ ev.type = "ret"
    /\ ev.op = "setActiveDataSource"
    /\ ev.res
    /\ activeSource = "b"
    /\ Has("simulated")
    /\ Has("b")
    /\ src[Get("simulated")].running
    /\ src[Get("b")].running

\* C32: an addDataSource(id) returns true only if the registry does not hold id when
\* it returns, and only if no other producer instance has its callbacks wired to id.
C32_DuplicateAddRejected ==
    [][(ev'.type = "ret" /\ ev'.op = "addDataSource" /\ ev'.res)
          => /\ ~Has(ev'.id)
             /\ \A i \in 1..Len(src) : i # ev'.inst => src[i].wired # ev'.id]_vars

\* the constructor's addDataSource("simulated") and a second one overlapped and both
\* returned true: the registry holds the second instance, and the first, started in
\* between, still runs with its callbacks wired to "simulated"
C32_Witness ==
    /\ ev.type = "ret"
    /\ ev.op = "addDataSource"
    /\ ev.res
    /\ ev.id = "simulated"
    /\ ev.inst = 2
    /\ dataSources = <<[id |-> "simulated", inst |-> 2]>>
    /\ src[2].wired = "simulated"
    /\ src[1].wired = "simulated"
    /\ src[1].running
    /\ ~src[2].running

\* a producer that was wired to an id and is not the one the registry holds under it
Removed(i) == src[i].wired # NoId /\ Get(src[i].wired) # i

\* C33: a producer that removeDataSource took out of the registry is not running and
\* has no timer, and no tick of it changes a history or reaches a data or anomaly
\* subscriber.
C33_RemovedProducerSilent ==
    /\ [](\A i \in 1..Len(src) : Removed(i) => ~src[i].running /\ src[i].timers = 0)
    /\ [][(ev'.type = "tick" /\ Removed(ev'.inst))
             => /\ UNCHANGED <<dataHistory, anomalyHistory>>
                /\ ev'.dataTo = 0
                /\ ev'.anomalyTo = 0]_vars

\* "b" was removed while updateDataSourceConfig was in flight on it and registered
\* again: the removed instance runs, and its sample was stored as one of the active
\* source "b" and handed to the subscriber
C33_Witness ==
    /\ ev.type = "tick"
    /\ ev.inst = 2
    /\ ev.dataTo = 1
    /\ activeSource = "b"
    /\ Get("b") = 3
    /\ src[2].running
    /\ src[2].wired = "b"
    /\ dataHistory # <<>>
    /\ dataHistory[Len(dataHistory)] = <<2, now>>

\* C34: a registered producer is not inside initialize, is wired to its id and does
\* not carry the status error of a failed initialize; a producer is wired only after
\* its initialize returned; every start() of a Coordinator call runs on a producer
\* whose initialize has returned; an addDataSource returns true only if initialize
\* returned true; and an addDataSource whose initialize returned false returns false,
\* tells the error subscribers, and leaves the registry and activeSource as they were,
\* without that producer.
C34_RegisteredMeansInitialized ==
    /\ [](\A k \in 1..Len(dataSources) :
             /\ \A t \in awaitingInit : t.inst # dataSources[k].inst
             /\ src[dataSources[k].inst].wired = dataSources[k].id
             /\ src[dataSources[k].inst].status \in {"stopped", "running"})
    /\ [](\A t \in awaitingInit : src[t.inst].wired = NoId)
    /\ [][ev'.pop = "start"
             => /\ \A t \in awaitingInit : t.inst # ev'.inst
                /\ \E k \in 1..Len(dataSources) : dataSources[k].inst = ev'.inst]_vars
    /\ [][(ev'.type = "ret" /\ ev'.op = "addDataSource" /\ ev'.inst # 0)
             => IF Head(ready).pc = "wire"
                THEN /\ ev'.res
                     /\ \E k \in 1..Len(dataSources') :
                            dataSources'[k] = [id |-> ev'.id, inst |-> ev'.inst]
                ELSE /\ ~ev'.res
                     /\ ev'.errs = errorCallbacks
                     /\ dataSources' = dataSources
                     /\ activeSource' = activeSource
                     /\ \A k \in 1..Len(dataSources) : dataSources[k].inst # ev'.inst]_vars

\* addDataSource("b", "netflow", { exporters: null }) returned false after its
\* initialize failed: the error subscriber was told, and the registry holds the
\* default source only
C34_Witness ==
    /\ ev.type = "ret"
    /\ ev.op = "addDataSource"
    /\ ev.id = "b"
    /\ ev.fault
    /\ ~ev.res
    /\ ev.errs = 1
    /\ dataSources = <<[id |-> "simulated", inst |-> 1]>>
    /\ activeSource = "simulated"
    /\ src[1].running

\* C35: a step that is not a timer tick leaves dataHistory and anomalyHistory as they
\* are; a tick leaves each history as it is or appends its one event at the end
\* (dropping the oldest entry above the cap), and it appends only if the producer is
\* wired to the id that is activeSource.
C35_LifecycleKeepsHistory ==
    [][/\ ev'.type # "tick" => UNCHANGED <<dataHistory, anomalyHistory>>
       /\ ev'.type = "tick"
             => /\ dataHistory' \in
                       {dataHistory,
                        ShiftIfOver(Append(dataHistory, <<ev'.inst, now'>>),
                                    maxDataHistorySize)}
                /\ anomalyHistory' \in
                       {anomalyHistory,
                        ShiftIfOver(Append(anomalyHistory, <<ev'.inst, now'>>),
                                    maxAnomalyHistorySize)}
                /\ (dataHistory' # dataHistory \/ anomalyHistory' # anomalyHistory)
                       => src[ev'.inst].wired = activeSource]_vars

\* the running active source was removed after it had fed the history: its sample
\* is still there, and the source is not registered any more
C35_Witness ==
    /\ ev.type = "ret"
    /\ ev.op = "removeDataSource"
    /\ ev.res
    /\ ev.was
    /\ Get(ev.id) = 0
    /\ dataHistory = <<<<ev.inst, now>>>>
    /\ now = 1

\* C36: a POST /api/network-data leaves the Coordinator (registry, activeSource, both
\* histories), its subscriber lists and the producers as they are, calls no
\* Coordinator subscriber and leaves the answer a GET would give unchanged; a GET
\* answers with the Coordinator's histories and leaves the route's two stores alone.
C36_StoresDisjoint ==
    [][/\ ev'.type = "post"
             => /\ UNCHANGED <<coord, subs, src>>
                /\ GETBody' = GETBody
                /\ ev'.dataTo = 0 /\ ev'.anomalyTo = 0
                /\ ev'.statusTo = 0 /\ ev'.errs = 0
       /\ ev'.type = "get"
             => /\ response'.body.history = LastN(dataHistory, 60)
                /\ response'.body.anomalies = anomalyHistory
                /\ UNCHANGED <<networkDataHistory, detectedAnomalies, coord>>]_vars

\* eleven samples were POSTed and the last one was found anomalous, a subscriber is
\* registered and the active source has emitted one sample without an anomaly: the
\* GET after it answers with that one sample and no anomaly
C36_Witness ==
    /\ ev.type = "get"
    /\ Len(networkDataHistory) = 11
    /\ Len(detectedAnomalies) = 2
    /\ dataCallbacks = 1
    /\ dataHistory = <<<<1, 1>>>>
    /\ response.body.history = <<<<1, 1>>>>
    /\ response.body.current = <<<<1, 1>>>>
    /\ response.body.anomalies = <<>>

\* no initialize is awaited for producer i and no continuation of a call on it is pending
Settled(i) ==
    /\ \A t \in awaitingInit : t.inst # i
    /\ \A k \in 1..Len(ready) : ready[k].inst # i

\* C37: for every producer with no lifecycle call in progress, running is true exactly
\* when the status is running: with an armed timer the status is neither stopped nor
\* error, and with status running a timer is armed, also after a failed tick.
C37_RunningIffStatusRunning ==
    \A i \in 1..Len(src) :
        Settled(i) => /\ src[i].running <=> (src[i].status = "running")
                      /\ (src[i].timers > 0) => (src[i].status \notin {"stopped", "error"})
                      /\ (src[i].status = "running") => (src[i].timers > 0)

\* a subscriber threw in a tick of a packet-capture producer: handleError set the
\* status to error, and the producer is still running with its timer armed
C37_Witness ==
    /\ ev.type = "tick"
    /\ ev.fault
    /\ src[ev.inst].kind = "pcap"
    /\ Settled(ev.inst)
    /\ src[ev.inst].status = "error"
    /\ src[ev.inst].running
    /\ src[ev.inst].timers = 1

\* C38: however often the effect of the hook has run, each data event of the
\* Coordinator adds exactly one entry to the hook's trafficHistory (dropping the oldest
\* above 60) and each anomaly event adds exactly one entry to the hook's anomalies.
C38_OneEntryPerEvent ==
    [][(ev'.type = "tick" /\ hook.kind # "none")
          => /\ ev'.dataTo > 0
                   => hook'.trafficHistory =
                          ShiftIfOver(Append(hook.trafficHistory, <<ev'.inst, now'>>),
                                      TrafficWindow)
             /\ ev'.anomalyTo > 0
                   => /\ Len(hook'.anomalies) = Len(hook.anomalies) + 1
                      /\ hook'.anomalies[1].id = <<ev'.inst, now'>>
                      /\ \A k \in 1..Len(hook.anomalies) :
                             hook'.anomalies[k + 1].id = hook.anomalies[k].id]_vars

\* the effect of useDataSource has run twice and the active source emitted one sample
\* with an anomaly: the chart holds the sample twice and the list the anomaly twice
C38_Witness ==
    /\ hook.kind = "useDataSource"
    /\ dataCallbacks = 2
    /\ ev.type = "tick"
    /\ ev.dataTo = 2
    /\ ev.anomalyTo = 2
    /\ dataHistory = <<<<1, 1>>>>
    /\ anomalyHistory = <<<<1, 1>>>>
    /\ hook.trafficHistory = <<<<1, 1>>, <<1, 1>>>>
    /\ Len(hook.anomalies) = 2
    /\ hook.anomalies[1].id = <<1, 1>>
    /\ hook.anomalies[2].id = <<1, 1>>

\* every effect and cleanup has run and no call of the hook is under way
Rendered ==
    /\ hook.kind # "none"
    /\ Quiescent
    /\ ~Calling
    /\ hook.pc = "idle"
    /\ ~hook.disconnecting
    /\ hook.effect = CurrentState(hook)

\* C39: after setActiveSource(id) / switchDataSource(id) of the connected hook with a
\* registered id, once every effect and cleanup has run, the Coordinator's active
\* source is id and its producer is running.
C39_SwitchSurvivesEffects ==
    (Rendered /\ hook.requested # NoId)
        => /\ activeSource = hook.requested
           /\ Has(activeSource)
           /\ src[Get(activeSource)].running

\* useWebSocket switched from "simulated" to "b": the cleanup's disconnect() stopped
\* "b", the effect after it reconnected to the first source, and everything has run:
\* the active source is "simulated" again, and "b" is stopped
C39_Witness ==
    /\ Rendered
    /\ hook.kind = "useWebSocket"
    /\ hook.requested = "b"
    /\ hook.isConnected
    /\ hook.activeSourceId = "simulated"
    /\ activeSource = "simulated"
    /\ src[Get("simulated")].running
    /\ Has("b")
    /\ ~src[Get("b")].running

====
